---- MODULE Spec2Model ----
(***************************************************************************)
(* A model of the MLB provider client of plaintext-sports (src/src/mlb.rs):*)
(* the endpoint-fallback resolver get_game_innings, the endpoint           *)
(* normalizers it and the other public operations use, and the status      *)
(* mapping.  serde_json values are modelled structurally, so that every    *)
(* accessor behaves as it does in the code (a missing key indexes to Null, *)
(* as_u64 answers only for a non-negative integer, `as u32` keeps the low  *)
(* 32 bits).  Further parts model the value types and formatting helpers   *)
(* (types.rs, utils.rs), the configuration cell (config.rs), one run of    *)
(* the command-line program (main.rs, nba.rs) and the client statics of    *)
(* the provider modules; each part has its own variables and its own       *)
(* specification over the common initial state.                            *)
(***************************************************************************)
EXTENDS Integers, Sequences, FiniteSets, TLC

(***************************************************************************)
(* Bounds of the model.                                                    *)
(***************************************************************************)
\* longest upstream innings array that is enumerated
MaxInnings == 2
\* game ids 1..MaxGameId are requested
MaxGameId == 2
\* most games in one schedule date that are enumerated
MaxGames == 1

(***************************************************************************)
(* Option<T> and Result<T, anyhow::Error>.  An error carries its message,  *)
(* a sequence of text fragments in the order they are formatted.           *)
(***************************************************************************)
None == [some |-> FALSE]
Some(x) == [some |-> TRUE, v |-> x]
Ok(x) == [ok |-> TRUE, val |-> x]
Err(m) == [ok |-> FALSE, err |-> m]

(***************************************************************************)
(* serde_json::Value.  A number is one of serde_json's three              *)
(* representations: PosInt(u64), NegInt(i64), Float(f64).  A u64 is kept   *)
(* as its two 32-bit halves, value = top * 2^32 + low, 0 <= low < 2^32.    *)
(***************************************************************************)
U64(top, low) == [top |-> top, low |-> low]
JNull == [t |-> "null"]
JBool(b) == [t |-> "bool", b |-> b]
JPosInt(top, low) == [t |-> "posint", n |-> U64(top, low)]
JNegInt == [t |-> "negint"]
JFloat == [t |-> "float"]
JStr(s) == [t |-> "str", s |-> s]
JArr(a) == [t |-> "arr", a |-> a]
JObj(o) == [t |-> "obj", o |-> o]
EmptyObj == JObj([k \in {} |-> JNull])

\* Value::get(key): Some(member) of an object that has the key, else None
Get(v, k) ==
    IF v.t = "obj" /\ k \in DOMAIN v.o THEN Some(v.o[k]) ELSE None
\* value[key]: the member, or Null when value is no object or lacks the key
Index(v, k) ==
    IF v.t = "obj" /\ k \in DOMAIN v.o THEN v.o[k] ELSE JNull
\* Value::as_u64: only a non-negative integer that fits u64
AsU64(v) ==
    IF v.t = "posint" THEN Some(v.n) ELSE None
\* Value::as_str
AsStr(v) ==
    IF v.t = "str" THEN Some(v.s) ELSE None
\* Value::as_bool
AsBool(v) ==
    IF v.t = "bool" THEN Some(v.b) ELSE None
\* Value::as_array
AsArray(v) ==
    IF v.t = "arr" THEN Some(v.a) ELSE None
\* Option::unwrap_or
UnwrapOr(opt, d) ==
    IF opt.some THEN opt.v ELSE d

\* `n as u32` for n: u64: the value reduced modulo 2^32, its low half
CastU32(n) ==
    n.low
\* v.as_u64().unwrap_or(0) as u32
U32OrZero(v) ==
    CastU32(UnwrapOr(AsU64(v), U64(0, 0)))
\* OptU32 written with unwrap_or(0): a missing number becomes Some(0)
OptU32_Zero(v) ==
    Some(CastU32(UnwrapOr(AsU64(v), U64(0, 0))))
\* v.as_u64().map(|r| r as u32)
OptU32(v) ==
    IF AsU64(v).some THEN Some(CastU32(AsU64(v).v)) ELSE None
\* v.as_str().unwrap_or(d).to_string()
StrOr(v, d) ==
    UnwrapOr(AsStr(v), d)
\* v.as_str().map(String::from)
OptStr(v) ==
    AsStr(v)

(***************************************************************************)
(* The status table: abstractGameState -> GameState.                       *)
(***************************************************************************)
GameStates ==
    {"Scheduled", "Live", "Final", "Postponed", "Cancelled", "Suspended", "Unknown"}
\* the table is written out four times in the code, once per normalizer
\* MapStatusGetGame without the arm for "Preview"
MapStatusGetGame_NoPreview(s) ==
    CASE s = "Final" -> "Final"
      [] s = "Live" -> "Live"
      [] s = "Postponed" -> "Postponed"
      [] s = "Cancelled" -> "Cancelled"
      [] s = "Suspended" -> "Suspended"
      [] OTHER -> "Unknown"
\* the match of get_game
MapStatusGetGame(s) ==
    CASE s = "Final" -> "Final"
      [] s = "Live" -> "Live"
      [] s = "Preview" -> "Scheduled"
      [] s = "Postponed" -> "Postponed"
      [] s = "Cancelled" -> "Cancelled"
      [] s = "Suspended" -> "Suspended"
      [] OTHER -> "Unknown"
\* the match of get_todays_games
MapStatusTodaysGames(s) ==
    CASE s = "Final" -> "Final"
      [] s = "Live" -> "Live"
      [] s = "Preview" -> "Scheduled"
      [] s = "Postponed" -> "Postponed"
      [] s = "Cancelled" -> "Cancelled"
      [] s = "Suspended" -> "Suspended"
      [] OTHER -> "Unknown"
\* MapStatusYesterdaysGames with "Suspended" left to the default arm
MapStatusYesterdaysGames_NoSuspended(s) ==
    CASE s = "Final" -> "Final"
      [] s = "Live" -> "Live"
      [] s = "Preview" -> "Scheduled"
      [] s = "Postponed" -> "Postponed"
      [] s = "Cancelled" -> "Cancelled"
      [] OTHER -> "Unknown"
\* the match of get_yesterdays_games
MapStatusYesterdaysGames(s) ==
    CASE s = "Final" -> "Final"
      [] s = "Live" -> "Live"
      [] s = "Preview" -> "Scheduled"
      [] s = "Postponed" -> "Postponed"
      [] s = "Cancelled" -> "Cancelled"
      [] s = "Suspended" -> "Suspended"
      [] OTHER -> "Unknown"
\* the match of try_feed_live_endpoint
MapStatusFeedLive(s) ==
    CASE s = "Final" -> "Final"
      [] s = "Live" -> "Live"
      [] s = "Preview" -> "Scheduled"
      [] s = "Postponed" -> "Postponed"
      [] s = "Cancelled" -> "Cancelled"
      [] s = "Suspended" -> "Suspended"
      [] OTHER -> "Unknown"
\* status_value.get("abstractGameState").and_then(|s| s.as_str()).unwrap_or("Unknown")
AbstractGameState(status_value) ==
    LET g == Get(status_value, "abstractGameState")
    IN  IF g.some THEN StrOr(g.v, "Unknown") ELSE "Unknown"

(***************************************************************************)
(* Team, as the game normalizers build it from a team object.              *)
(***************************************************************************)
TeamFrom(t) ==
    [id |-> U32OrZero(Index(t, "id")),
     name |-> StrOr(Index(t, "name"), ""),
     team_code |-> OptStr(Index(t, "teamCode")),
     file_code |-> OptStr(Index(t, "fileCode")),
     team_name |-> OptStr(Index(t, "teamName")),
     location_name |-> OptStr(Index(t, "locationName")),
     short_name |-> OptStr(Index(t, "shortName")),
     abbreviation |-> OptStr(Index(t, "abbreviation"))]
\* the Team the linescore candidate builds from the boxscore: id and name only
TeamFromBoxscore(t) ==
    [id |-> U32OrZero(Index(t, "id")),
     name |-> StrOr(Index(t, "name"), ""),
     team_code |-> None,
     file_code |-> None,
     team_name |-> None,
     location_name |-> None,
     short_name |-> None,
     abbreviation |-> None]

\* the innings loop with the enumerate index taken as the inning number
InningsFrom_ZeroBased(linescore) ==
    LET g == Get(linescore, "innings")
        arr == IF g.some THEN AsArray(g.v) ELSE None
    IN  IF arr.some
        THEN [i \in 1..Len(arr.v) |->
                 [inning |-> i - 1,
                  home |-> OptU32(Index(Index(arr.v[i], "home"), "runs")),
                  away |-> OptU32(Index(Index(arr.v[i], "away"), "runs"))]]
        ELSE <<>>

\* the innings loop: one InningData per element of the upstream array,
\* numbered by its position (i as u32 + 1), and no element for an absent array
InningsFrom(linescore) ==
    LET g == Get(linescore, "innings")
        arr == IF g.some THEN AsArray(g.v) ELSE None
    IN  IF arr.some
        THEN [i \in 1..Len(arr.v) |->
                 [inning |-> i,
                  home |-> OptU32(Index(Index(arr.v[i], "home"), "runs")),
                  away |-> OptU32(Index(Index(arr.v[i], "away"), "runs"))]]
        ELSE <<>>

(***************************************************************************)
(* The HTTP transport.  A request ends in a transport error or in a        *)
(* response with a status and a body; the body is JSON or is not.          *)
(***************************************************************************)
TransportError == [kind |-> "transport"]
Http(status, body) == [kind |-> "http", status |-> status, body |-> body]
NotJson == [json |-> FALSE]
JsonBody(doc) == [json |-> TRUE, doc |-> doc]
\* StatusCode::is_success: 200..=299
IsSuccess(status) ==
    status >= 200 /\ status < 300
\* the Display of a StatusCode
StatusText(status) ==
    CASE status = 200 -> "200 OK"
      [] status = 404 -> "404 Not Found"
      [] status = 503 -> "503 Service Unavailable"
      [] OTHER -> "status"
\* the message of the reqwest error that `send().await?` propagates
SendErrorMsg == <<"error sending request for url">>
\* the message of the reqwest error that `response.json().await?` propagates
DecodeErrorMsg == <<"error decoding response body">>
\* anyhow!("HTTP error: {}", response.status())
HttpErrorMsg(status) == <<"HTTP error: ", StatusText(status)>>

(***************************************************************************)
(* try_feed_live_endpoint, from the parsed document on.                    *)
(***************************************************************************)
FeedLiveNormalize(data, game_id) ==
    LET gd == Get(data, "gameData")
    IN  IF ~gd.some THEN Err(<<"Missing game data">>) ELSE
    LET game_data == gd.v
        st == Get(game_data, "status")
    IN  IF ~st.some THEN Err(<<"Missing status data">>) ELSE
    LET status == MapStatusFeedLive(AbstractGameState(st.v))
        ld == Get(data, "liveData")
    IN  IF ~ld.some THEN Err(<<"Missing live data">>) ELSE
    LET ls == Get(ld.v, "linescore")
    IN  IF ~ls.some THEN Err(<<"Missing linescore data">>) ELSE
    LET linescore == ls.v
        teams == Get(linescore, "teams")
    IN  IF ~teams.some THEN Err(<<"Missing teams data">>) ELSE
    LET away == Get(teams.v, "away")
    IN  IF ~away.some THEN Err(<<"Missing away team data">>) ELSE
    LET home == Get(teams.v, "home")
    IN  IF ~home.some THEN Err(<<"Missing home team data">>) ELSE
        Ok([game_pk |-> U32OrZero(Index(Index(game_data, "game"), "pk")),
            game_date |-> StrOr(Index(Index(game_data, "datetime"), "dateTime"), ""),
            status |-> status,
            home_team |-> TeamFrom(Index(Index(game_data, "teams"), "home")),
            away_team |-> TeamFrom(Index(Index(game_data, "teams"), "away")),
            innings |-> InningsFrom(linescore),
            home_runs |-> OptU32(Index(home.v, "runs")),
            away_runs |-> OptU32(Index(away.v, "runs"))])

\* try_feed_live_endpoint, from the answer to its one request on
TryFeedLiveEndpoint(r, game_id) ==
    IF r.kind = "transport" THEN Err(SendErrorMsg)
    ELSE IF ~IsSuccess(r.status) THEN Err(HttpErrorMsg(r.status))
    ELSE IF ~r.body.json THEN Err(DecodeErrorMsg)
    ELSE FeedLiveNormalize(r.body.doc, game_id)

(***************************************************************************)
(* try_linescore_endpoint: the linescore request, then the boxscore        *)
(* request, then both bodies.                                              *)
(***************************************************************************)
\* up to the check of the linescore status: Ok carries the response on
TryLinescoreSend(r) ==
    IF r.kind = "transport" THEN Err(SendErrorMsg)
    ELSE IF ~IsSuccess(r.status) THEN Err(HttpErrorMsg(r.status))
    ELSE Ok(r)

\* LinescoreNormalize taking the status from the linescore document when it
\* has one
LinescoreNormalize_UpstreamStatus(linescore_data, boxscore_data, game_id) ==
    LET teams == Get(linescore_data, "teams")
        st == Get(linescore_data, "status")
    IN  IF ~teams.some \/ ~Get(teams.v, "away").some \/ ~Get(teams.v, "home").some
        THEN Err(<<"Missing teams data in linescore">>)
        ELSE Ok([game_pk |-> game_id,
                 game_date |-> "",
                 status |-> IF st.some THEN MapStatusFeedLive(AbstractGameState(st.v))
                            ELSE "Final",
                 home_team |-> TeamFromBoxscore(
                     Index(Index(Index(boxscore_data, "teams"), "home"), "team")),
                 away_team |-> TeamFromBoxscore(
                     Index(Index(Index(boxscore_data, "teams"), "away"), "team")),
                 innings |-> InningsFrom(linescore_data),
                 home_runs |-> OptU32(Index(Index(teams.v, "home"), "runs")),
                 away_runs |-> OptU32(Index(Index(teams.v, "away"), "runs"))])
LinescoreNormalize(linescore_data, boxscore_data, game_id) ==
    LET teams == Get(linescore_data, "teams")
    IN  IF ~teams.some THEN Err(<<"Missing teams data in linescore">>) ELSE
    LET away == Get(teams.v, "away")
    IN  IF ~away.some THEN Err(<<"Missing away team data in linescore">>) ELSE
    LET home == Get(teams.v, "home")
    IN  IF ~home.some THEN Err(<<"Missing home team data in linescore">>) ELSE
    LET gd == Get(linescore_data, "gameDate")
    IN  Ok([game_pk |-> game_id,
            game_date |-> IF gd.some THEN StrOr(gd.v, "") ELSE "",
            status |-> "Final",
            home_team |-> TeamFromBoxscore(
                Index(Index(Index(boxscore_data, "teams"), "home"), "team")),
            away_team |-> TeamFromBoxscore(
                Index(Index(Index(boxscore_data, "teams"), "away"), "team")),
            innings |-> InningsFrom(linescore_data),
            home_runs |-> OptU32(Index(home.v, "runs")),
            away_runs |-> OptU32(Index(away.v, "runs"))])

\* TryLinescoreBoxscore going on without the boxscore when its fetch failed
TryLinescoreBoxscore_WithoutBoxscore(ls, r, game_id) ==
    IF ~ls.body.json THEN Err(DecodeErrorMsg)
    ELSE IF r.kind = "transport" \/ ~IsSuccess(r.status) \/ ~r.body.json
    THEN LinescoreNormalize(ls.body.doc, JNull, game_id)
    ELSE LinescoreNormalize(ls.body.doc, r.body.doc, game_id)
\* from the answer to the boxscore request on; ls is the linescore response
TryLinescoreBoxscore(ls, r, game_id) ==
    IF r.kind = "transport" THEN Err(SendErrorMsg)
    ELSE IF ~IsSuccess(r.status)
    THEN Err(<<"Failed to fetch game data from boxscore: HTTP ", StatusText(r.status)>>)
    ELSE IF ~r.body.json THEN Err(DecodeErrorMsg)
    ELSE IF ~ls.body.json THEN Err(DecodeErrorMsg)
    ELSE LinescoreNormalize(ls.body.doc, r.body.doc, game_id)

(***************************************************************************)
(* try_playbyplay_endpoint: an error whatever the answer.                  *)
(***************************************************************************)
\* TryPlayByPlayEndpoint with the extraction implemented: a value on 2xx
TryPlayByPlayEndpoint_Implemented(r) ==
    IF r.kind = "transport" THEN Err(SendErrorMsg)
    ELSE IF ~IsSuccess(r.status) THEN Err(HttpErrorMsg(r.status))
    ELSE Ok([game_pk |-> 0, status |-> "Unknown"])
TryPlayByPlayEndpoint(r) ==
    IF r.kind = "transport" THEN Err(SendErrorMsg)
    ELSE IF ~IsSuccess(r.status) THEN Err(HttpErrorMsg(r.status))
    ELSE Err(<<"Play-by-play endpoint found but not implemented for inning extraction">>)

\* AggregateError with the first two messages under each other's label
AggregateError_Swapped(feed_live_error, linescore_error, playbyplay_error) ==
    <<"Could not retrieve inning data from any endpoint. Errors: ">>
    \o <<"feed/live", ": ">> \o linescore_error
    \o <<", ", "linescore", ": ">> \o feed_live_error
    \o <<", ", "playByPlay", ": ">> \o playbyplay_error
\* the anyhow! of get_game_innings when all three candidates failed
AggregateError(feed_live_error, linescore_error, playbyplay_error) ==
    <<"Could not retrieve inning data from any endpoint. Errors: ">>
    \o <<"feed/live", ": ">> \o feed_live_error
    \o <<", ", "linescore", ": ">> \o linescore_error
    \o <<", ", "playByPlay", ": ">> \o playbyplay_error

(***************************************************************************)
(* The upstream documents that are enumerated: a complete document of each *)
(* endpoint, and every document got from it by removing one member or by   *)
(* replacing one member with another JSON value.                           *)
(***************************************************************************)
RECURSIVE DelPath(_, _)
DelPath(v, path) ==
    IF Len(path) = 1
    THEN JObj([k \in DOMAIN v.o \ {path[1]} |-> v.o[k]])
    ELSE JObj([k \in DOMAIN v.o |->
                  IF k = path[1] THEN DelPath(v.o[k], Tail(path)) ELSE v.o[k]])
RECURSIVE SetPath(_, _, _)
SetPath(v, path, new) ==
    IF path = <<>> THEN new
    ELSE JObj([k \in DOMAIN v.o \cup {path[1]} |->
                  IF k = path[1]
                  THEN SetPath(IF k \in DOMAIN v.o THEN v.o[k] ELSE EmptyObj,
                               Tail(path), new)
                  ELSE v.o[k]])

\* the values a numeric member takes: in range, zero, beyond u32 (2^32 + 5 and
\* 2^32), negative, fractional, and of another JSON type
NumberValues ==
    {JPosInt(0, 5), JPosInt(0, 0), JPosInt(1, 5), JPosInt(1, 0),
     JNegInt, JFloat, JStr("5"), JNull}
\* the values abstractGameState takes: the six names of the table, other
\* strings (the empty one, another capitalisation, a GameState name that is no
\* upstream name) and other JSON types
StatusStrings ==
    {"Final", "Live", "Preview", "Postponed", "Cancelled", "Suspended",
     "", "final", "Scheduled", "Unknown", "In Progress"}
StatusValues ==
    {JStr(s) : s \in StatusStrings} \cup {JNull, JPosInt(0, 1)}

RunsObj(v) == JObj([runs |-> v])
InningObj(h, a) == JObj([home |-> h, away |-> a])
\* one element of an innings array: both halves played, the second half not
\* yet played, a count beyond u32 and a negative one
InningValues ==
    {InningObj(RunsObj(JPosInt(0, 1)), RunsObj(JPosInt(0, 0))),
     InningObj(RunsObj(JPosInt(0, 2)), EmptyObj),
     InningObj(RunsObj(JPosInt(1, 2)), RunsObj(JNegInt))}
SeqsUpTo(S, n) ==
    UNION {[1..k -> S] : k \in 0..n}
InningsArrays ==
    SeqsUpTo(InningValues, MaxInnings)

TeamObj(id, name, abbr) ==
    JObj([id |-> JPosInt(0, id), name |-> JStr(name), teamCode |-> JStr("c"),
          fileCode |-> JStr("f"), teamName |-> JStr("t"),
          locationName |-> JStr("l"), shortName |-> JStr("s"),
          abbreviation |-> JStr(abbr)])
HomeTeamObj == TeamObj(147, "Yankees", "NYY")
AwayTeamObj == TeamObj(111, "Red Sox", "BOS")
FullInnings ==
    JArr(<<InningObj(RunsObj(JPosInt(0, 1)), RunsObj(JPosInt(0, 0))),
           InningObj(RunsObj(JPosInt(0, 2)), EmptyObj)>>)

\* /game/{id}/feed/live
FullFeedLive ==
    JObj([gameData |-> JObj([
              game |-> JObj([pk |-> JPosInt(0, 1), type |-> JStr("R")]),
              datetime |-> JObj([dateTime |-> JStr("2024-04-01T17:05:00Z")]),
              status |-> JObj([abstractGameState |-> JStr("Final"),
                               detailedState |-> JStr("Final")]),
              teams |-> JObj([home |-> HomeTeamObj, away |-> AwayTeamObj])]),
          liveData |-> JObj([
              linescore |-> JObj([
                  innings |-> FullInnings,
                  teams |-> JObj([home |-> RunsObj(JPosInt(0, 5)),
                                  away |-> RunsObj(JPosInt(0, 3))])])])])
FeedLiveDelPaths ==
    {<<"gameData">>, <<"gameData", "status">>,
     <<"gameData", "status", "abstractGameState">>,
     <<"gameData", "game">>, <<"gameData", "datetime">>,
     <<"gameData", "teams">>, <<"gameData", "teams", "home">>,
     <<"gameData", "teams", "home", "id">>,
     <<"gameData", "teams", "home", "name">>,
     <<"gameData", "teams", "away", "id">>,
     <<"gameData", "teams", "away", "abbreviation">>,
     <<"liveData">>, <<"liveData", "linescore">>,
     <<"liveData", "linescore", "teams">>,
     <<"liveData", "linescore", "teams", "away">>,
     <<"liveData", "linescore", "teams", "home">>,
     <<"liveData", "linescore", "teams", "home", "runs">>,
     <<"liveData", "linescore", "innings">>}
FeedLiveDocs ==
    {FullFeedLive}
    \cup {DelPath(FullFeedLive, p) : p \in FeedLiveDelPaths}
    \cup {SetPath(FullFeedLive, <<"gameData", "status", "abstractGameState">>, v) :
             v \in StatusValues}
    \cup {SetPath(FullFeedLive, p, v) : v \in NumberValues,
             p \in {<<"liveData", "linescore", "teams", "home", "runs">>,
                    <<"liveData", "linescore", "teams", "away", "runs">>,
                    <<"gameData", "teams", "home", "id">>,
                    <<"gameData", "game", "pk">>}}
    \cup {SetPath(FullFeedLive, <<"liveData", "linescore", "innings">>, JArr(a)) :
             a \in InningsArrays}
    \cup {SetPath(FullFeedLive, <<"liveData", "linescore", "innings">>, JStr("x"))}

\* /game/{id}/linescore
FullLinescore ==
    JObj([gameDate |-> JStr("2024-04-01"),
          innings |-> FullInnings,
          teams |-> JObj([home |-> RunsObj(JPosInt(0, 5)),
                          away |-> RunsObj(JPosInt(0, 3))])])
LinescoreDocs ==
    {FullLinescore}
    \cup {DelPath(FullLinescore, p) :
             p \in {<<"teams">>, <<"teams", "away">>, <<"teams", "home">>,
                    <<"teams", "home", "runs">>, <<"innings">>, <<"gameDate">>}}
    \cup {SetPath(FullLinescore, <<"teams", "home", "runs">>, v) : v \in NumberValues}
    \cup {SetPath(FullLinescore, <<"innings">>, JArr(a)) : a \in InningsArrays}
    \cup {SetPath(FullLinescore, <<"status">>,
                  JObj([abstractGameState |-> JStr("Live")]))}

(***************************************************************************)
(* get_game: the feed/live document to a Game.                             *)
(***************************************************************************)
\* extract_game_team(&data, team_type): the member team_type of the document
ExtractGameTeam(data, team_type) ==
    LET team_data == Get(data, team_type)
    IN  IF ~team_data.some THEN Err(<<"Missing ", team_type, " team data">>)
        ELSE Ok([score |-> OptU32(Index(team_data.v, "runs")),
                 team |-> TeamFrom(team_data.v),
                 is_winner |-> AsBool(Index(team_data.v, "isWinner"))])
VenueFrom(game_data) ==
    Some([id |-> U32OrZero(Index(Index(game_data, "venue"), "id")),
          name |-> StrOr(Index(Index(game_data, "venue"), "name"), "")])
GetGameNormalize(data) ==
    LET gd == Get(data, "gameData")
    IN  IF ~gd.some THEN Err(<<"Missing game data">>) ELSE
    LET game_data == gd.v
        status == MapStatusGetGame(AbstractGameState(Index(game_data, "status")))
        away == ExtractGameTeam(data, "away")
    IN  IF ~away.ok THEN away ELSE
    LET home == ExtractGameTeam(data, "home")
    IN  IF ~home.ok THEN home ELSE
        Ok([game_pk |-> U32OrZero(Index(game_data, "gamePk")),
            game_date |-> StrOr(Index(game_data, "gameDate"), ""),
            status |-> status,
            teams |-> [away |-> away.val, home |-> home.val],
            venue |-> VenueFrom(game_data)])
\* get_game, from the answer to its request on
GetGame(r) ==
    IF r.kind = "transport" THEN Err(SendErrorMsg)
    ELSE IF ~IsSuccess(r.status)
    THEN Err(<<"Failed to fetch game data: HTTP ", StatusText(r.status)>>)
    ELSE IF ~r.body.json THEN Err(DecodeErrorMsg)
    ELSE GetGameNormalize(r.body.doc)

(***************************************************************************)
(* get_todays_games and get_yesterdays_games: the schedule document to the *)
(* list of its games.                                                      *)
(***************************************************************************)
\* the GameTeam literal of the schedule normalizers
ScheduleGameTeam(t) ==
    [score |-> OptU32(Index(t, "score")),
     team |-> TeamFrom(Index(t, "team")),
     is_winner |-> AsBool(Index(t, "isWinner"))]
\* the Game literal of the schedule normalizers, status already mapped
ScheduleGame(game_data, status) ==
    [game_pk |-> U32OrZero(Index(game_data, "gamePk")),
     game_date |-> StrOr(Index(game_data, "gameDate"), ""),
     status |-> status,
     teams |-> [away |-> ScheduleGameTeam(Index(Index(game_data, "teams"), "away")),
                home |-> ScheduleGameTeam(Index(Index(game_data, "teams"), "home"))],
     venue |-> VenueFrom(game_data)]
\* data.get("dates").and_then(|d| d.as_array()).unwrap_or(&empty_vec)
DatesOf(data) ==
    LET d == Get(data, "dates")
    IN  IF d.some THEN UnwrapOr(AsArray(d.v), <<>>) ELSE <<>>
\* date.get("games").and_then(|g| g.as_array()), nothing pushed when None
GamesArrayOf(date) ==
    LET g == Get(date, "games")
    IN  IF g.some THEN UnwrapOr(AsArray(g.v), <<>>) ELSE <<>>
RECURSIVE TodaysGamesLoop(_)
TodaysGamesLoop(dates) ==
    IF dates = <<>> THEN <<>>
    ELSE LET arr == GamesArrayOf(Head(dates))
         IN  [i \in 1..Len(arr) |->
                 ScheduleGame(arr[i], MapStatusTodaysGames(
                     AbstractGameState(Index(arr[i], "status"))))]
             \o TodaysGamesLoop(Tail(dates))
RECURSIVE YesterdaysGamesLoop(_)
YesterdaysGamesLoop(dates) ==
    IF dates = <<>> THEN <<>>
    ELSE LET arr == GamesArrayOf(Head(dates))
         IN  [i \in 1..Len(arr) |->
                 ScheduleGame(arr[i], MapStatusYesterdaysGames(
                     AbstractGameState(Index(arr[i], "status"))))]
             \o YesterdaysGamesLoop(Tail(dates))
GetTodaysGames(r) ==
    IF r.kind = "transport" THEN Err(SendErrorMsg)
    ELSE IF ~IsSuccess(r.status)
    THEN Err(<<"Failed to fetch today's games: HTTP ", StatusText(r.status)>>)
    ELSE IF ~r.body.json THEN Err(DecodeErrorMsg)
    ELSE Ok(TodaysGamesLoop(DatesOf(r.body.doc)))
GetYesterdaysGames(r) ==
    IF r.kind = "transport" THEN Err(SendErrorMsg)
    ELSE IF ~IsSuccess(r.status)
    THEN Err(<<"Failed to fetch yesterday's games: HTTP ", StatusText(r.status)>>)
    ELSE IF ~r.body.json THEN Err(DecodeErrorMsg)
    ELSE Ok(YesterdaysGamesLoop(DatesOf(r.body.doc)))

(***************************************************************************)
(* get_game_stats: the boxscore document to the two teams' statistics.     *)
(* The per-player lists (batters, pitchers) are not modelled.              *)
(***************************************************************************)
ExtractTeamStats(team_data) ==
    LET t == Get(team_data, "team")
        n == IF t.some THEN Get(t.v, "name") ELSE None
        team_name == IF n.some THEN AsStr(n.v) ELSE None
        b == Index(Index(team_data, "teamStats"), "batting")
        p == Index(Index(team_data, "teamStats"), "pitching")
    IN  IF ~team_name.some THEN Err(<<"Missing team name">>)
        ELSE Ok([team_name |-> team_name.v,
                 batting |-> [runs |-> U32OrZero(Index(b, "runs")),
                              hits |-> U32OrZero(Index(b, "hits")),
                              home_runs |-> U32OrZero(Index(b, "homeRuns")),
                              rbi |-> U32OrZero(Index(b, "rbi")),
                              stolen_bases |-> U32OrZero(Index(b, "stolenBases")),
                              avg |-> StrOr(Index(b, "avg"), ".000"),
                              obp |-> StrOr(Index(b, "obp"), ".000"),
                              slg |-> StrOr(Index(b, "slg"), ".000"),
                              ops |-> StrOr(Index(b, "ops"), ".000")],
                 pitching |-> [innings_pitched |-> StrOr(Index(p, "inningsPitched"), "0"),
                               hits_allowed |-> U32OrZero(Index(p, "hits")),
                               runs_allowed |-> U32OrZero(Index(p, "runs")),
                               earned_runs |-> U32OrZero(Index(p, "earnedRuns")),
                               walks |-> U32OrZero(Index(p, "baseOnBalls")),
                               strikeouts |-> U32OrZero(Index(p, "strikeOuts")),
                               home_runs_allowed |-> U32OrZero(Index(p, "homeRuns")),
                               era |-> StrOr(Index(p, "era"), "0.00")]])
GetGameStatsNormalize(data) ==
    LET teams == Get(data, "teams")
    IN  IF ~teams.some THEN Err(<<"Missing teams data">>) ELSE
    LET away == Get(teams.v, "away")
    IN  IF ~away.some THEN Err(<<"Missing away team data">>) ELSE
    LET home == Get(teams.v, "home")
    IN  IF ~home.some THEN Err(<<"Missing home team data">>) ELSE
    LET away_team_stats == ExtractTeamStats(away.v)
    IN  IF ~away_team_stats.ok THEN away_team_stats ELSE
    LET home_team_stats == ExtractTeamStats(home.v)
    IN  IF ~home_team_stats.ok THEN home_team_stats ELSE
        Ok([away_team_stats |-> away_team_stats.val,
            home_team_stats |-> home_team_stats.val])
GetGameStats(r) ==
    IF r.kind = "transport" THEN Err(SendErrorMsg)
    ELSE IF ~IsSuccess(r.status)
    THEN Err(<<"Failed to fetch game stats: HTTP ", StatusText(r.status)>>)
    ELSE IF ~r.body.json THEN Err(DecodeErrorMsg)
    ELSE GetGameStatsNormalize(r.body.doc)

(***************************************************************************)
(* The documents of the other endpoints.                                   *)
(***************************************************************************)
\* the values an isWinner member takes; JNull stands for any non-boolean
WinnerValues == {JBool(TRUE), JBool(FALSE), JNull}

\* the document get_game reads: gameData, and the members away and home that
\* extract_game_team looks up in the document itself
GameTeamObj(team, runs, is_winner) ==
    JObj([k \in DOMAIN team.o \cup {"runs", "isWinner"} |->
             IF k = "runs" THEN runs
             ELSE IF k = "isWinner" THEN is_winner
             ELSE team.o[k]])
VenueObj == JObj([id |-> JPosInt(0, 3313), name |-> JStr("Yankee Stadium")])
FullGameDoc ==
    JObj([gameData |-> JObj([
              gamePk |-> JPosInt(0, 1),
              gameDate |-> JStr("2024-04-01T17:05:00Z"),
              status |-> JObj([abstractGameState |-> JStr("Final"),
                               detailedState |-> JStr("Final")]),
              venue |-> VenueObj]),
          home |-> GameTeamObj(HomeTeamObj, JPosInt(0, 5), JBool(TRUE)),
          away |-> GameTeamObj(AwayTeamObj, JPosInt(0, 3), JBool(FALSE))])
GameDocs ==
    {FullGameDoc, FullFeedLive}
    \cup {DelPath(FullGameDoc, p) :
             p \in {<<"gameData">>, <<"gameData", "status">>,
                    <<"gameData", "status", "abstractGameState">>,
                    <<"gameData", "gamePk">>, <<"gameData", "venue">>,
                    <<"home">>, <<"away">>, <<"home", "id">>, <<"home", "name">>,
                    <<"away", "id">>, <<"home", "runs">>, <<"away", "runs">>,
                    <<"home", "isWinner">>, <<"away", "isWinner">>,
                    <<"home", "abbreviation">>}}
    \cup {SetPath(FullGameDoc, <<"gameData", "status", "abstractGameState">>, v) :
             v \in StatusValues}
    \cup {SetPath(FullGameDoc, p, v) : v \in NumberValues,
             p \in {<<"home", "runs">>, <<"away", "runs">>, <<"home", "id">>,
                    <<"gameData", "gamePk">>, <<"gameData", "venue", "id">>}}
    \cup {SetPath(SetPath(FullGameDoc, <<"home", "isWinner">>, h),
                  <<"away", "isWinner">>, a) :
             h \in WinnerValues, a \in WinnerValues}

\* /schedule?sportId=1&date=...: dates[].games[]
ScheduleTeamObj(team, score, is_winner) ==
    JObj([team |-> team, score |-> score, isWinner |-> is_winner])
FullScheduleGame ==
    JObj([gamePk |-> JPosInt(0, 1),
          gameDate |-> JStr("2024-04-01T17:05:00Z"),
          status |-> JObj([abstractGameState |-> JStr("Final"),
                           detailedState |-> JStr("Final")]),
          teams |-> JObj([
              home |-> ScheduleTeamObj(HomeTeamObj, JPosInt(0, 5), JBool(TRUE)),
              away |-> ScheduleTeamObj(AwayTeamObj, JPosInt(0, 3), JBool(FALSE))]),
          venue |-> VenueObj])
ScheduleGames ==
    {FullScheduleGame}
    \cup {DelPath(FullScheduleGame, p) :
             p \in {<<"status">>, <<"status", "abstractGameState">>,
                    <<"gamePk">>, <<"teams">>, <<"teams", "home">>,
                    <<"teams", "home", "team">>, <<"teams", "home", "team", "id">>,
                    <<"teams", "away", "team", "name">>,
                    <<"teams", "home", "score">>, <<"teams", "away", "score">>,
                    <<"teams", "home", "isWinner">>, <<"venue">>}}
    \cup {SetPath(FullScheduleGame, <<"status", "abstractGameState">>, v) :
             v \in StatusValues}
    \cup {SetPath(FullScheduleGame, p, v) : v \in NumberValues,
             p \in {<<"teams", "home", "score">>, <<"teams", "away", "score">>,
                    <<"teams", "home", "team", "id">>, <<"gamePk">>}}
    \cup {SetPath(SetPath(FullScheduleGame, <<"teams", "home", "isWinner">>, h),
                  <<"teams", "away", "isWinner">>, a) :
             h \in WinnerValues, a \in WinnerValues}
DateObj(games) == JObj([date |-> JStr("2024-04-01"), games |-> JArr(games)])
ScheduleDocs ==
    {JObj([dates |-> JArr(<<DateObj(gs)>>)]) : gs \in SeqsUpTo(ScheduleGames, MaxGames)}
    \cup {EmptyObj,
          JObj([dates |-> JStr("x")]),
          JObj([dates |-> JArr(<<JObj([date |-> JStr("2024-04-01")]),
                                 DateObj(<<FullScheduleGame>>)>>)]),
          JObj([dates |-> JArr(<<DateObj(<<FullScheduleGame>>),
                                 DateObj(<<FullScheduleGame, FullScheduleGame>>)>>)])}

\* /game/{id}/boxscore: teams.{home,away}.{team, teamStats}
BattingObj ==
    JObj([runs |-> JPosInt(0, 5), hits |-> JPosInt(0, 9), homeRuns |-> JPosInt(0, 2),
          rbi |-> JPosInt(0, 5), stolenBases |-> JPosInt(0, 1),
          avg |-> JStr(".250"), obp |-> JStr(".320"), slg |-> JStr(".410"),
          ops |-> JStr(".730")])
PitchingObj ==
    JObj([inningsPitched |-> JStr("9.0"), hits |-> JPosInt(0, 7),
          runs |-> JPosInt(0, 3), earnedRuns |-> JPosInt(0, 3),
          baseOnBalls |-> JPosInt(0, 2), strikeOuts |-> JPosInt(0, 8),
          homeRuns |-> JPosInt(0, 1), era |-> JStr("3.00")])
BoxscoreTeamObj(team) ==
    JObj([team |-> team,
          teamStats |-> JObj([batting |-> BattingObj, pitching |-> PitchingObj])])
FullBoxscore ==
    JObj([teams |-> JObj([home |-> BoxscoreTeamObj(HomeTeamObj),
                          away |-> BoxscoreTeamObj(AwayTeamObj)])])
BattingKeys ==
    {"runs", "hits", "homeRuns", "rbi", "stolenBases", "avg", "obp", "slg", "ops"}
PitchingKeys ==
    {"inningsPitched", "hits", "runs", "earnedRuns", "baseOnBalls", "strikeOuts",
     "homeRuns", "era"}
BoxscoreDocs ==
    {FullBoxscore}
    \cup {DelPath(FullBoxscore, p) :
             p \in {<<"teams">>, <<"teams", "home">>, <<"teams", "away">>,
                    <<"teams", "home", "team">>, <<"teams", "home", "team", "id">>,
                    <<"teams", "home", "team", "name">>,
                    <<"teams", "away", "team", "name">>,
                    <<"teams", "away", "team", "id">>,
                    <<"teams", "home", "teamStats">>,
                    <<"teams", "home", "teamStats", "batting">>,
                    <<"teams", "away", "teamStats", "pitching">>}}
    \cup {DelPath(FullBoxscore, <<"teams", "home", "teamStats", "batting", k>>) :
             k \in BattingKeys}
    \cup {DelPath(FullBoxscore, <<"teams", "home", "teamStats", "pitching", k>>) :
             k \in PitchingKeys}
    \cup {SetPath(FullBoxscore, <<"teams", "home", "teamStats", "batting", k>>, v) :
             k \in {"hits", "avg"}, v \in NumberValues}
    \cup {SetPath(FullBoxscore, <<"teams", "away", "teamStats", "pitching", k>>, v) :
             k \in {"strikeOuts", "era"}, v \in NumberValues}
    \cup {SetPath(FullBoxscore, <<"teams", "home", "team", k>>, v) :
             k \in {"id", "name"}, v \in NumberValues}

\* what an endpoint answers: no answer, an error status, a body that is not
\* JSON, or one of its documents
Responses(docs) ==
    {TransportError, Http(404, NotJson), Http(503, NotJson), Http(200, NotJson)}
    \cup {Http(200, JsonBody(d)) : d \in docs}
GameIds == 1..MaxGameId
FeedLiveResponses == Responses(FeedLiveDocs)
LinescoreResponses == Responses(LinescoreDocs)
BoxscoreResponses == Responses(BoxscoreDocs)
PlayByPlayResponses == Responses({EmptyObj})
GameResponses == Responses(GameDocs)
ScheduleResponses == Responses(ScheduleDocs)

(***************************************************************************)
(* The client: one top-level operation at a time.  A step is the code      *)
(* between two awaits of a request: the call up to its first request, and  *)
(* from each answer up to the next request or the return.                  *)
(***************************************************************************)
VARIABLES
    pc,                  \* where the running operation waits
    op,                  \* the running operation
    game_id,             \* its argument
    log,                 \* the requests issued by it, in order
    answers,             \* the answers received, answers[i] to log[i]
    linescore_response,  \* try_linescore_endpoint: the response held over the
                         \* boxscore request
    feed_live_error,     \* get_game_innings: the error bound by its first arm
    linescore_error,     \* get_game_innings: the error bound by its second arm
    result               \* what the operation returned

clientVars ==
    <<pc, op, game_id, log, answers, linescore_response, feed_live_error,
      linescore_error, result>>

(***************************************************************************)
(* State outside the client: the last call of a function of types.rs,      *)
(* utils.rs or of a deserializer, with its arguments and what it returned. *)
(***************************************************************************)
VARIABLES
    call                 \* the function applied last, its input and output

typesVars == <<call>>

(***************************************************************************)
(* The process-wide configuration: the environment, the OnceLock CONFIG,   *)
(* and the threads that call get_config.                                   *)
(***************************************************************************)
VARIABLES
    env,                 \* the environment variables: None when unset
    CONFIG,              \* the OnceLock: its state, and its value once complete
    tpc,                 \* where each thread is in get_config
    tlocal,              \* the locals of the initializer closure a thread runs
    installed,           \* the values stored into CONFIG, in order
    observed             \* the values get_config has returned to a caller

\* the threads that may call get_config
MaxThreads == 2
Threads == 1..MaxThreads
EnvNames == {"MLB_API_BASE_URL", "NBA_API_BASE_URL", "NBA_API_KEY"}
NoConfig ==
    [mlb_api_base_url |-> "", nba_api_base_url |-> "", nba_api_key |-> ""]

configVars == <<env, CONFIG, tpc, tlocal, installed, observed>>

(***************************************************************************)
(* The command-line program: one run of main, from its arguments to its    *)
(* exit, and the statics of the two providers.                             *)
(***************************************************************************)
VARIABLES
    args,                \* the parsed command line
    mpc,                 \* where main is: at which await, or exited
    sec,                 \* the section of main that runs or ran last
    games,               \* the listing the running section loops over
    gi,                  \* the position of the loop in games
    printed,             \* the lines written to stdout by the running section
    sent,                \* the requests sent by the running section
    finished,            \* the sections that ran to their end, in order
    exit_code,           \* None while the process runs
    MLB_API_BASE_URL,    \* the OnceLock<String> of mlb.rs
    NBA_API_INSTANCE     \* the OnceLock<NbaApi> of nba.rs: TRUE once it holds a client

mainVars ==
    <<args, mpc, sec, games, gi, printed, sent, finished, exit_code,
      MLB_API_BASE_URL, NBA_API_INSTANCE>>
NoArgs ==
    [todays_games |-> FALSE, yesterday_games |-> FALSE, fetch_mlb |-> FALSE,
     fetch_nba |-> FALSE, detailed_stats |-> FALSE, command |-> "none",
     id |-> U64(0, 0)]

(***************************************************************************)
(* The process-wide client instances: the top-level functions of a         *)
(* provider module get their client from a static, called here by          *)
(* concurrent requests.                                                    *)
(***************************************************************************)
VARIABLES
    rpc,                 \* where each request is in its top-level function
    callee,              \* the module whose function a request calls
    once_state,          \* of the OnceLock of mlb.rs and of nba.rs
    once_value,          \* the instance a OnceLock holds, 0 while it holds none
    MLB_API_INSTANCE,    \* the static mut Option<MlbApi> of mlb/mod.rs, 0 for None
    constructed,         \* per module, how often MlbApi::new / NbaApi::new ran
    client,              \* the instance a request has a reference to, 0 for none
    dropped              \* the instances of mlb/mod.rs an assignment has dropped

instanceVars ==
    <<rpc, callee, once_state, once_value, MLB_API_INSTANCE, constructed, client,
      dropped>>
OnceModules == {"mlb.rs", "nba.rs"}
Modules == OnceModules \cup {"mlb/mod.rs"}

nonTypesVars == <<clientVars, configVars, mainVars, instanceVars>>
nonConfigVars == <<clientVars, typesVars, mainVars, instanceVars>>
nonClientVars == <<typesVars, configVars, mainVars, instanceVars>>
nonInstanceVars == <<clientVars, typesVars, configVars, mainVars>>
\* what no step of main changes
nonMainVars == <<clientVars, typesVars, env, tpc, tlocal, observed, instanceVars>>
vars == <<clientVars, typesVars, configVars, mainVars, instanceVars>>

Req(endpoint, id) == [endpoint |-> endpoint, id |-> id]

Init ==
    /\ pc = "idle"
    /\ op = "none"
    /\ game_id = 0
    /\ log = <<>>
    /\ answers = <<>>
    /\ linescore_response = None
    /\ feed_live_error = None
    /\ linescore_error = None
    /\ result = None
    /\ call = [fn |-> "none"]
    /\ env = [name \in EnvNames |-> None]
    /\ CONFIG = [state |-> "incomplete"]
    /\ tpc = [t \in Threads |-> "idle"]
    /\ tlocal = [t \in Threads |-> NoConfig]
    /\ installed = <<>>
    /\ observed = {}
    /\ args = NoArgs
    /\ mpc = "start"
    /\ sec = 1
    /\ games = <<>>
    /\ gi = 0
    /\ printed = <<>>
    /\ sent = <<>>
    /\ finished = <<>>
    /\ exit_code = None
    /\ MLB_API_BASE_URL = None
    /\ NBA_API_INSTANCE = FALSE
    /\ rpc = [t \in Threads |-> "idle"]
    /\ callee = [t \in Threads |-> "mlb.rs"]
    /\ once_state = [m \in OnceModules |-> "incomplete"]
    /\ once_value = [m \in OnceModules |-> 0]
    /\ MLB_API_INSTANCE = 0
    /\ constructed = [m \in Modules |-> 0]
    /\ client = [t \in Threads |-> 0]
    /\ dropped = {}

\* CallGetGameInnings sending the first two candidates' requests together
CallGetGameInnings_Parallel(id) ==
    /\ pc = "idle"
    /\ pc' = "try_feed_live"
    /\ op' = "get_game_innings"
    /\ game_id' = id
    /\ log' = log \o <<Req("feed/live", id), Req("linescore", id)>>
    /\ UNCHANGED <<answers, linescore_response, feed_live_error, linescore_error,
                   result>>
    /\ UNCHANGED nonClientVars
\* get_game_innings up to the send of try_feed_live_endpoint
CallGetGameInnings(id) ==
    /\ pc = "idle"
    /\ pc' = "try_feed_live"
    /\ op' = "get_game_innings"
    /\ game_id' = id
    /\ log' = Append(log, Req("feed/live", id))
    /\ UNCHANGED <<answers, linescore_response, feed_live_error, linescore_error,
                   result>>
    /\ UNCHANGED nonClientVars

\* FeedLiveResponds going on to the linescore candidate after an Ok as well
FeedLiveResponds_FallsThrough ==
    /\ pc = "try_feed_live"
    /\ \E r \in FeedLiveResponses :
        /\ answers' = Append(answers, r)
        /\ LET res == TryFeedLiveEndpoint(r, game_id)
           IN  /\ feed_live_error' = IF res.ok THEN Some(<<>>) ELSE Some(res.err)
               /\ result' = IF res.ok THEN Some(res) ELSE result
        /\ log' = Append(log, Req("linescore", game_id))
        /\ pc' = "try_linescore"
        /\ UNCHANGED <<op, game_id, linescore_response, linescore_error>>
    /\ UNCHANGED nonClientVars
\* the rest of try_feed_live_endpoint and the first match of get_game_innings:
\* Ok returns, Err binds feed_live_error and sends the linescore request
FeedLiveResponds ==
    /\ pc = "try_feed_live"
    /\ \E r \in FeedLiveResponses :
        /\ answers' = Append(answers, r)
        /\ LET res == TryFeedLiveEndpoint(r, game_id)
           IN  IF res.ok
               THEN /\ result' = Some(res)
                    /\ pc' = "done"
                    /\ UNCHANGED <<log, feed_live_error>>
               ELSE /\ feed_live_error' = Some(res.err)
                    /\ log' = Append(log, Req("linescore", game_id))
                    /\ pc' = "try_linescore"
                    /\ UNCHANGED result
        /\ UNCHANGED <<op, game_id, linescore_response, linescore_error>>
    /\ UNCHANGED nonClientVars

\* LinescoreResponds sending the linescore request again after a transport error
LinescoreResponds_Retry ==
    /\ pc = "try_linescore"
    /\ \E r \in LinescoreResponses :
        /\ answers' = Append(answers, r)
        /\ LET res == TryLinescoreSend(r)
           IN  IF res.ok
               THEN /\ linescore_response' = Some(res.val)
                    /\ log' = Append(log, Req("boxscore", game_id))
                    /\ pc' = "try_linescore_boxscore"
                    /\ UNCHANGED linescore_error
               ELSE IF r.kind = "transport" /\ Len(log) < 3
               THEN /\ log' = Append(log, Req("linescore", game_id))
                    /\ UNCHANGED <<pc, linescore_response, linescore_error>>
               ELSE /\ linescore_error' = Some(res.err)
                    /\ log' = Append(log, Req("playByPlay", game_id))
                    /\ pc' = "try_playbyplay"
                    /\ UNCHANGED linescore_response
        /\ UNCHANGED <<op, game_id, feed_live_error, result>>
    /\ UNCHANGED nonClientVars
\* try_linescore_endpoint from the linescore answer to the boxscore send; on
\* Err the second match binds linescore_error and sends the playByPlay request
LinescoreResponds ==
    /\ pc = "try_linescore"
    /\ \E r \in LinescoreResponses :
        /\ answers' = Append(answers, r)
        /\ LET res == TryLinescoreSend(r)
           IN  IF res.ok
               THEN /\ linescore_response' = Some(res.val)
                    /\ log' = Append(log, Req("boxscore", game_id))
                    /\ pc' = "try_linescore_boxscore"
                    /\ UNCHANGED linescore_error
               ELSE /\ linescore_error' = Some(res.err)
                    /\ log' = Append(log, Req("playByPlay", game_id))
                    /\ pc' = "try_playbyplay"
                    /\ UNCHANGED linescore_response
        /\ UNCHANGED <<op, game_id, feed_live_error, result>>
    /\ UNCHANGED nonClientVars

\* the rest of try_linescore_endpoint and the second match of get_game_innings
BoxscoreResponds ==
    /\ pc = "try_linescore_boxscore"
    /\ \E r \in BoxscoreResponses :
        /\ answers' = Append(answers, r)
        /\ LET res == TryLinescoreBoxscore(linescore_response.v, r, game_id)
           IN  IF res.ok
               THEN /\ result' = Some(res)
                    /\ pc' = "done"
                    /\ UNCHANGED <<log, linescore_error>>
               ELSE /\ linescore_error' = Some(res.err)
                    /\ log' = Append(log, Req("playByPlay", game_id))
                    /\ pc' = "try_playbyplay"
                    /\ UNCHANGED result
        /\ linescore_response' = None
        /\ UNCHANGED <<op, game_id, feed_live_error>>
    /\ UNCHANGED nonClientVars

\* PlayByPlayResponds returning the last candidate's own result
PlayByPlayResponds_Propagates ==
    /\ pc = "try_playbyplay"
    /\ \E r \in PlayByPlayResponses :
        /\ answers' = Append(answers, r)
        /\ result' = Some(TryPlayByPlayEndpoint(r))
        /\ pc' = "done"
        /\ UNCHANGED <<op, game_id, log, linescore_response, feed_live_error,
                       linescore_error>>
    /\ UNCHANGED nonClientVars
\* the rest of try_playbyplay_endpoint and the third match of get_game_innings
PlayByPlayResponds ==
    /\ pc = "try_playbyplay"
    /\ \E r \in PlayByPlayResponses :
        /\ answers' = Append(answers, r)
        /\ LET res == TryPlayByPlayEndpoint(r)
           IN  result' = Some(IF res.ok THEN res
                              ELSE Err(AggregateError(feed_live_error.v,
                                                      linescore_error.v, res.err)))
        /\ pc' = "done"
        /\ UNCHANGED <<op, game_id, log, linescore_response, feed_live_error,
                       linescore_error>>
    /\ UNCHANGED nonClientVars

\* an operation of one request: up to its send
CallSimple(name, endpoint, id) ==
    /\ pc = "idle"
    /\ pc' = name
    /\ op' = name
    /\ game_id' = id
    /\ log' = Append(log, Req(endpoint, id))
    /\ UNCHANGED <<answers, linescore_response, feed_live_error, linescore_error,
                   result>>
    /\ UNCHANGED nonClientVars
\* an operation of one request: from the answer to the return
ReturnSimple(name, r, res) ==
    /\ pc = name
    /\ answers' = Append(answers, r)
    /\ result' = Some(res)
    /\ pc' = "done"
    /\ UNCHANGED <<op, game_id, log, linescore_response, feed_live_error,
                   linescore_error>>
    /\ UNCHANGED nonClientVars

CallGetGame ==
    \E id \in GameIds : CallSimple("get_game", "feed/live", id)
GetGameResponds ==
    /\ pc = "get_game"
    /\ \E r \in GameResponses : ReturnSimple("get_game", r, GetGame(r))
CallGetTodaysGames == CallSimple("get_todays_games", "schedule", 0)
TodaysGamesResponds ==
    /\ pc = "get_todays_games"
    /\ \E r \in ScheduleResponses :
          ReturnSimple("get_todays_games", r, GetTodaysGames(r))
CallGetYesterdaysGames == CallSimple("get_yesterdays_games", "schedule", 0)
YesterdaysGamesResponds ==
    /\ pc = "get_yesterdays_games"
    /\ \E r \in ScheduleResponses :
          ReturnSimple("get_yesterdays_games", r, GetYesterdaysGames(r))
CallGetGameStats ==
    \E id \in GameIds : CallSimple("get_game_stats", "boxscore", id)
GameStatsResponds ==
    /\ pc = "get_game_stats"
    /\ \E r \in BoxscoreResponses :
          ReturnSimple("get_game_stats", r, GetGameStats(r))

\* the caller has the result; the client is free for the next operation
Return ==
    /\ pc = "done"
    /\ pc' = "idle"
    /\ op' = "none"
    /\ game_id' = 0
    /\ log' = <<>>
    /\ answers' = <<>>
    /\ linescore_response' = None
    /\ feed_live_error' = None
    /\ linescore_error' = None
    /\ result' = None
    /\ UNCHANGED nonClientVars

Next ==
    \/ \E id \in GameIds : CallGetGameInnings(id)
    \/ FeedLiveResponds
    \/ LinescoreResponds
    \/ BoxscoreResponds
    \/ PlayByPlayResponds
    \/ CallGetGame
    \/ GetGameResponds
    \/ CallGetTodaysGames
    \/ TodaysGamesResponds
    \/ CallGetYesterdaysGames
    \/ YesterdaysGamesResponds
    \/ CallGetGameStats
    \/ GameStatsResponds
    \/ Return

Spec == Init /\ [][Next]_vars

(***************************************************************************)
(* What a run of get_game_innings has done so far, read off the requests   *)
(* and the answers: each candidate's outcome, None while it is not decided.*)
(***************************************************************************)
IsInnings == op = "get_game_innings"
Requested(endpoint) ==
    \E i \in 1..Len(log) : log[i].endpoint = endpoint
Answered(endpoint) ==
    \E i \in 1..Len(answers) : i <= Len(log) /\ log[i].endpoint = endpoint
AnswerTo(endpoint) ==
    answers[CHOOSE i \in 1..Len(answers) : i <= Len(log) /\ log[i].endpoint = endpoint]
Outstanding ==
    {log[i].endpoint : i \in (Len(answers) + 1)..Len(log)}
\* the candidate an endpoint belongs to: 1 feed/live, 2 linescore(+boxscore),
\* 3 playByPlay
CandidateOf(endpoint) ==
    CASE endpoint = "feed/live" -> 1
      [] endpoint = "linescore" -> 2
      [] endpoint = "boxscore" -> 2
      [] endpoint = "playByPlay" -> 3
      [] OTHER -> 0
FeedLiveOutcome ==
    IF Answered("feed/live")
    THEN Some(TryFeedLiveEndpoint(AnswerTo("feed/live"), game_id))
    ELSE None
LinescoreOutcome ==
    IF ~Answered("linescore") THEN None
    ELSE IF ~TryLinescoreSend(AnswerTo("linescore")).ok
    THEN Some(TryLinescoreSend(AnswerTo("linescore")))
    ELSE IF Answered("boxscore")
    THEN Some(TryLinescoreBoxscore(AnswerTo("linescore"), AnswerTo("boxscore"),
                                   game_id))
    ELSE None
PlayByPlayOutcome ==
    IF Answered("playByPlay")
    THEN Some(TryPlayByPlayEndpoint(AnswerTo("playByPlay")))
    ELSE None
Succeeded(outcome) == outcome.some /\ outcome.v.ok
Failed(outcome) == outcome.some /\ ~outcome.v.ok
AllCandidatesFailed ==
    Failed(FeedLiveOutcome) /\ Failed(LinescoreOutcome) /\ Failed(PlayByPlayOutcome)
\* sub occurs in seq from position i on
OccursAt(seq, sub, i) ==
    /\ i >= 1
    /\ i + Len(sub) - 1 <= Len(seq)
    /\ \A k \in 1..Len(sub) : seq[i + k - 1] = sub[k]

(***************************************************************************)
(* C1.  In get_game_innings, when the candidates before candidate K+1 have *)
(* failed and candidate K+1 succeeds, the call has returned exactly the    *)
(* value of candidate K+1 and no request of a later candidate was issued.  *)
(***************************************************************************)
C1_FirstSuccessIsReturned ==
    IsInnings =>
        /\ Succeeded(FeedLiveOutcome) =>
              /\ result = Some(FeedLiveOutcome.v)
              /\ \A i \in 1..Len(log) : CandidateOf(log[i].endpoint) <= 1
        /\ (Failed(FeedLiveOutcome) /\ Succeeded(LinescoreOutcome)) =>
              /\ result = Some(LinescoreOutcome.v)
              /\ \A i \in 1..Len(log) : CandidateOf(log[i].endpoint) <= 2
        /\ (Failed(FeedLiveOutcome) /\ Failed(LinescoreOutcome)
              /\ Succeeded(PlayByPlayOutcome)) =>
              result = Some(PlayByPlayOutcome.v)
\* feed/live answered 404, linescore and boxscore answered with documents,
\* and the call returned the linescore candidate's value
C1_Witness ==
    /\ IsInnings
    /\ pc = "done"
    /\ Answered("feed/live")
    /\ AnswerTo("feed/live") = Http(404, NotJson)
    /\ Succeeded(LinescoreOutcome)
    /\ result = Some(LinescoreOutcome.v)
    /\ ~Requested("playByPlay")

(***************************************************************************)
(* C2.  When all three candidates of get_game_innings have failed, the     *)
(* call returns one error whose message holds, in candidate order, the     *)
(* label feed/live followed by the feed/live candidate's message, the      *)
(* label linescore followed by the linescore candidate's message, and the  *)
(* label playByPlay followed by the playByPlay candidate's message.        *)
(***************************************************************************)
C2_AggregatedErrorNamesAll ==
    (IsInnings /\ pc = "done" /\ AllCandidatesFailed) =>
        /\ ~result.v.ok
        /\ LET m == result.v.err
               e1 == FeedLiveOutcome.v.err
               e2 == LinescoreOutcome.v.err
               e3 == PlayByPlayOutcome.v.err
           IN  \E i1 \in 1..Len(m) :
                 /\ m[i1] = "feed/live"
                 /\ OccursAt(m, e1, i1 + 2)
                 /\ \E i2 \in (i1 + 2 + Len(e1))..Len(m) :
                       /\ m[i2] = "linescore"
                       /\ OccursAt(m, e2, i2 + 2)
                       /\ \E i3 \in (i2 + 2 + Len(e2))..Len(m) :
                             /\ m[i3] = "playByPlay"
                             /\ OccursAt(m, e3, i3 + 2)
\* three different failures: a structural one, an error status of the
\* boxscore request, and a playByPlay answer of status 200
C2_Witness ==
    /\ IsInnings
    /\ pc = "done"
    /\ AllCandidatesFailed
    /\ FeedLiveOutcome.v.err = <<"Missing live data">>
    /\ LinescoreOutcome.v.err =
           <<"Failed to fetch game data from boxscore: HTTP ", "503 Service Unavailable">>
    /\ AnswerTo("playByPlay") = Http(200, JsonBody(EmptyObj))

(***************************************************************************)
(* C3.  The candidates of one get_game_innings call are attempted one      *)
(* after the other: a request of a candidate is issued only when every     *)
(* earlier candidate has been found to have failed, at most one request is *)
(* outstanding, and never requests of two candidates at once.              *)
(***************************************************************************)
C3_CandidatesSequential ==
    IsInnings =>
        /\ Cardinality({CandidateOf(e) : e \in Outstanding}) <= 1
        /\ Len(log) - Len(answers) <= 1
        /\ (Requested("linescore") \/ Requested("boxscore")) =>
              Failed(FeedLiveOutcome)
        /\ Requested("playByPlay") =>
              Failed(FeedLiveOutcome) /\ Failed(LinescoreOutcome)
        /\ \A i, j \in 1..Len(log) :
              i < j => CandidateOf(log[i].endpoint) <= CandidateOf(log[j].endpoint)
\* the playByPlay request is outstanding, after the other two candidates
\* failed, the second one at its boxscore request
C3_Witness ==
    /\ IsInnings
    /\ Outstanding = {"playByPlay"}
    /\ Answered("boxscore")
    /\ Failed(FeedLiveOutcome)
    /\ Failed(LinescoreOutcome)

(***************************************************************************)
(* C4.  During one get_game_innings call no upstream endpoint is requested *)
(* more than once, whatever fails.                                         *)
(***************************************************************************)
C4_NoEndpointRequestedTwice ==
    IsInnings =>
        \A i, j \in 1..Len(log) : i # j => log[i].endpoint # log[j].endpoint
\* a call that went through all four endpoints, each failing in its own way
C4_Witness ==
    /\ IsInnings
    /\ pc = "done"
    /\ {log[i].endpoint : i \in 1..Len(log)} =
           {"feed/live", "linescore", "boxscore", "playByPlay"}
    /\ Len(log) = 4
    /\ AnswerTo("feed/live") = TransportError
    /\ AnswerTo("boxscore") = Http(200, NotJson)
    /\ AnswerTo("playByPlay") = TransportError

(***************************************************************************)
(* C5.  get_game_innings returns an error exactly when all its candidates  *)
(* failed, and the error it returns is the aggregated one, never the error *)
(* of one candidate alone.                                                 *)
(***************************************************************************)
C5_ErrorIffAllFailed ==
    (IsInnings /\ pc = "done") =>
        /\ ~result.v.ok <=> AllCandidatesFailed
        /\ ~result.v.ok =>
              /\ result.v.err # FeedLiveOutcome.v.err
              /\ result.v.err # LinescoreOutcome.v.err
              /\ result.v.err # PlayByPlayOutcome.v.err
              /\ result.v.err[1] =
                     "Could not retrieve inning data from any endpoint. Errors: "
\* the first candidate failed with a transport error and the call still
\* returned a value, the second candidate's
C5_Witness ==
    /\ IsInnings
    /\ pc = "done"
    /\ Answered("feed/live")
    /\ AnswerTo("feed/live") = TransportError
    /\ Succeeded(LinescoreOutcome)
    /\ result.v.ok

(***************************************************************************)
(* The operations of one request: the document that was answered, and the  *)
(* games that were returned.                                               *)
(***************************************************************************)
HasDoc ==
    /\ Len(answers) >= 1
    /\ answers[1].kind = "http"
    /\ IsSuccess(answers[1].status)
    /\ answers[1].body.json
Doc == answers[1].body.doc
Returned == pc = "done" /\ result.some /\ result.v.ok
ReturnedGames ==
    IF ~Returned THEN {}
    ELSE IF op = "get_game" THEN {result.v.val}
    ELSE IF op \in {"get_todays_games", "get_yesterdays_games"}
    THEN {result.v.val[i] : i \in 1..Len(result.v.val)}
    ELSE {}
Sides == {"home", "away"}
\* the JSON types of a number
NumberTypes == {"posint", "negint", "float"}

(***************************************************************************)
(* C6.  The status mapping of get_game is total: a document whose          *)
(* abstractGameState is a string or is absent yields a Game, and the       *)
(* Game's status is the variant the table documents for that string:       *)
(* Final, Live, Preview -> Scheduled, Postponed, Cancelled, Suspended, and *)
(* Unknown for every other string and for an absent member.                *)
(***************************************************************************)
DocumentedStatus(s) ==
    IF s = "Preview" THEN "Scheduled"
    ELSE IF s \in {"Final", "Live", "Postponed", "Cancelled", "Suspended"} THEN s
    ELSE "Unknown"
C6_StatusMappingTotal ==
    (op = "get_game" /\ pc = "done" /\ HasDoc
        /\ Get(Doc, "gameData").some /\ Get(Doc, "home").some /\ Get(Doc, "away").some) =>
        LET a == Get(Index(Index(Doc, "gameData"), "status"), "abstractGameState")
        IN  (~a.some \/ a.v.t = "str") =>
               /\ result.v.ok
               /\ result.v.val.status \in GameStates
               /\ result.v.val.status =
                      IF a.some THEN DocumentedStatus(a.v.s) ELSE "Unknown"
\* get_game returned a Scheduled game for a document that says "Preview"
C6_Witness ==
    /\ op = "get_game"
    /\ Returned
    /\ HasDoc
    /\ Index(Index(Index(Doc, "gameData"), "status"), "abstractGameState") = JStr("Preview")
    /\ result.v.val.status = "Scheduled"

(***************************************************************************)
(* C7.  As claimed: in every Game that get_game, get_todays_games or       *)
(* get_yesterdays_games returns, the two is_winner flags are not both      *)
(* Some(true), and a Final game with home score 5 and away score 3 has     *)
(* exactly one flag that is Some(true).                                    *)
(***************************************************************************)
C7_WinnerFlagsExclusive ==
    \A g \in ReturnedGames :
        LET h == g.teams.home.is_winner = Some(TRUE)
            a == g.teams.away.is_winner = Some(TRUE)
        IN  /\ ~(h /\ a)
            /\ (g.status = "Final" /\ g.teams.home.score = Some(5)
                   /\ g.teams.away.score = Some(3)) => (h \/ a)

(***************************************************************************)
(* C8.  As claimed: a document in which the team id of a home or away team *)
(* is missing makes the normalizer return an error (get_game and the       *)
(* feed/live candidate), as a missing team name does in get_game_stats; no *)
(* Team with a defaulted id is returned.                                   *)
(***************************************************************************)
C8_MissingRequiredFieldIsError ==
    /\ (op = "get_game" /\ pc = "done" /\ HasDoc
          /\ \E side \in Sides :
                Get(Doc, side).some /\ ~Get(Get(Doc, side).v, "id").some)
          => ~result.v.ok
    /\ (IsInnings /\ Answered("feed/live") /\ HasDoc
          /\ \E side \in Sides :
                ~Get(Index(Index(Index(Doc, "gameData"), "teams"), side), "id").some)
          => ~Succeeded(FeedLiveOutcome)
    /\ (op = "get_game_stats" /\ pc = "done" /\ HasDoc
          /\ \E side \in Sides :
                ~Get(Index(Index(Index(Doc, "teams"), side), "team"), "name").some)
          => ~result.v.ok

(***************************************************************************)
(* C9.  A document in which optional members are missing or of the wrong   *)
(* JSON type still yields a value, with the documented defaults: in        *)
(* get_game_stats a team's numeric statistics are 0, avg, obp, slg and ops *)
(* are ".000" and era is "0.00"; a score or runs total (get_game, the      *)
(* schedule listings, the feed/live candidate) is None, not 0.             *)
(***************************************************************************)
StatAt(side, group, key) ==
    Index(Index(Index(Index(Index(Doc, "teams"), side), "teamStats"), group), key)
StatsOf(side) ==
    IF side = "home" THEN result.v.val.home_team_stats
    ELSE result.v.val.away_team_stats
BattingCounts ==
    {<<"runs", "runs">>, <<"hits", "hits">>, <<"homeRuns", "home_runs">>,
     <<"rbi", "rbi">>, <<"stolenBases", "stolen_bases">>}
BattingRates ==
    {<<"avg", "avg">>, <<"obp", "obp">>, <<"slg", "slg">>, <<"ops", "ops">>}
PitchingCounts ==
    {<<"hits", "hits_allowed">>, <<"runs", "runs_allowed">>,
     <<"earnedRuns", "earned_runs">>, <<"baseOnBalls", "walks">>,
     <<"strikeOuts", "strikeouts">>, <<"homeRuns", "home_runs_allowed">>}
TeamNamed(side) ==
    AsStr(Index(Index(Index(Index(Doc, "teams"), side), "team"), "name")).some
C9_OptionalFieldsDefault ==
    /\ (op = "get_game_stats" /\ pc = "done" /\ HasDoc
          /\ TeamNamed("home") /\ TeamNamed("away")) =>
          /\ result.v.ok
          /\ \A side \in Sides :
                /\ \A kf \in BattingCounts :
                      StatAt(side, "batting", kf[1]).t \notin NumberTypes =>
                          StatsOf(side).batting[kf[2]] = 0
                /\ \A kf \in BattingRates :
                      StatAt(side, "batting", kf[1]).t # "str" =>
                          StatsOf(side).batting[kf[2]] = ".000"
                /\ \A kf \in PitchingCounts :
                      StatAt(side, "pitching", kf[1]).t \notin NumberTypes =>
                          StatsOf(side).pitching[kf[2]] = 0
                /\ StatAt(side, "pitching", "era").t # "str" =>
                      StatsOf(side).pitching.era = "0.00"
    /\ (op = "get_game" /\ pc = "done" /\ HasDoc
          /\ Get(Doc, "gameData").some /\ Get(Doc, "home").some
          /\ Get(Doc, "away").some) =>
          /\ result.v.ok
          /\ \A side \in Sides :
                Index(Index(Doc, side), "runs").t \notin NumberTypes =>
                    result.v.val.teams[side].score = None
    /\ (op \in {"get_todays_games", "get_yesterdays_games"} /\ pc = "done" /\ HasDoc) =>
          /\ result.v.ok
          /\ Len(DatesOf(Doc)) = 1 =>
                LET arr == GamesArrayOf(DatesOf(Doc)[1])
                IN  /\ Len(result.v.val) = Len(arr)
                    /\ \A i \in 1..Len(arr) : \A side \in Sides :
                          Index(Index(Index(arr[i], "teams"), side), "score").t
                              \notin NumberTypes =>
                              result.v.val[i].teams[side].score = None
    /\ (IsInnings /\ Succeeded(FeedLiveOutcome)) =>
          LET teams == Index(Index(Index(Doc, "liveData"), "linescore"), "teams")
          IN  /\ Index(Index(teams, "home"), "runs").t \notin NumberTypes =>
                    FeedLiveOutcome.v.val.home_runs = None
              /\ Index(Index(teams, "away"), "runs").t \notin NumberTypes =>
                    FeedLiveOutcome.v.val.away_runs = None
\* get_game_stats returned statistics for a boxscore without the home team's
\* avg: the default ".000", beside the hits the document does have
C9_Witness ==
    /\ op = "get_game_stats"
    /\ Returned
    /\ HasDoc
    /\ ~Get(Index(Index(Index(Index(Doc, "teams"), "home"), "teamStats"),
                  "batting"), "avg").some
    /\ result.v.val.home_team_stats.batting.avg = ".000"
    /\ result.v.val.home_team_stats.batting.hits = 9

(***************************************************************************)
(* C10.  As claimed: a number that does not fit the 32-bit field (2^32 or  *)
(* more) is treated as missing: a score is None and a team id or gamePk is *)
(* the default 0; the value reduced modulo 2^32 is never stored.           *)
(***************************************************************************)
TooBigForU32(v) == v.t = "posint" /\ v.n.top # 0
C10_OutOfRangeIsMissing ==
    (op = "get_game" /\ Returned /\ HasDoc) =>
        /\ \A side \in Sides :
              /\ TooBigForU32(Index(Index(Doc, side), "runs")) =>
                    result.v.val.teams[side].score = None
              /\ TooBigForU32(Index(Index(Doc, side), "id")) =>
                    result.v.val.teams[side].team.id = 0
        /\ TooBigForU32(Index(Index(Doc, "gameData"), "gamePk")) =>
              result.v.val.game_pk = 0

(***************************************************************************)
(* C11.  In every GameInnings value a candidate returns, the innings       *)
(* sequence is as long as the upstream innings array, its i-th element     *)
(* (from 1) carries inning number i and the runs of the i-th upstream      *)
(* element, and a document without an innings array gives the empty        *)
(* sequence.                                                               *)
(***************************************************************************)
\* the linescore object a candidate read its innings from
UpstreamLinescore(endpoint) ==
    IF endpoint = "feed/live"
    THEN Index(Index(AnswerTo("feed/live").body.doc, "liveData"), "linescore")
    ELSE AnswerTo("linescore").body.doc
InningsNumbered(innings, upstream) ==
    IF upstream.t = "arr"
    THEN /\ Len(innings) = Len(upstream.a)
         /\ \A i \in 1..Len(innings) :
               /\ innings[i].inning = i
               /\ innings[i].home.some =
                      (Index(Index(upstream.a[i], "home"), "runs").t = "posint")
               /\ innings[i].away.some =
                      (Index(Index(upstream.a[i], "away"), "runs").t = "posint")
    ELSE innings = <<>>
C11_InningsNumbered ==
    IsInnings =>
        /\ Succeeded(FeedLiveOutcome) =>
              InningsNumbered(FeedLiveOutcome.v.val.innings,
                              Index(UpstreamLinescore("feed/live"), "innings"))
        /\ Succeeded(LinescoreOutcome) =>
              InningsNumbered(LinescoreOutcome.v.val.innings,
                              Index(UpstreamLinescore("linescore"), "innings"))
        /\ (Returned /\ Succeeded(FeedLiveOutcome)) =>
              result.v.val.innings = FeedLiveOutcome.v.val.innings
        /\ (Returned /\ ~Succeeded(FeedLiveOutcome)) =>
              result.v.val.innings = LinescoreOutcome.v.val.innings
\* the linescore candidate returned both innings of a two-inning array
C11_Witness ==
    /\ IsInnings /\ Returned
    /\ Succeeded(LinescoreOutcome)
    /\ Index(UpstreamLinescore("linescore"), "innings").t = "arr"
    /\ Len(result.v.val.innings) = 2
    /\ result.v.val.innings[2].inning = 2

(***************************************************************************)
(* Text.  A Rust string is modelled as the sequence of its characters,     *)
(* each a one-character string, so that formatting and parsing are         *)
(* computed character by character.                                        *)
(***************************************************************************)
\* the longest text drawn as an input
MaxTextLen == 3
\* the largest count of complete innings, hits or at-bats drawn as an input
MaxComplete == 25

DigitChars == <<"0", "1", "2", "3", "4", "5", "6", "7", "8", "9">>
IsDigit(c) == \E d \in 1..10 : DigitChars[d] = c
DigitValue(c) == (CHOOSE d \in 1..10 : DigitChars[d] = c) - 1

\* Display of an unsigned integer: decimal, no sign, no leading zero
RECURSIVE FormatU32(_)
FormatU32(n) ==
    IF n < 10 THEN <<DigitChars[n + 1]>>
    ELSE Append(FormatU32(n \div 10), DigitChars[(n % 10) + 1])

\* the digits of u32::MAX, 4294967295
U32MaxDigits == <<4, 2, 9, 4, 9, 6, 7, 2, 9, 5>>
RECURSIVE StripZeros(_)
StripZeros(ds) ==
    IF Len(ds) > 1 /\ ds[1] = 0 THEN StripZeros(Tail(ds)) ELSE ds
FitsU32(ds) ==
    LET z == StripZeros(ds)
    IN  \/ Len(z) < Len(U32MaxDigits)
        \/ /\ Len(z) = Len(U32MaxDigits)
           /\ \/ z = U32MaxDigits
              \/ \E i \in 1..Len(z) :
                    /\ z[i] < U32MaxDigits[i]
                    /\ \A j \in 1..(i - 1) : z[j] = U32MaxDigits[j]
RECURSIVE DigitsValue(_)
DigitsValue(ds) ==
    IF ds = <<>> THEN 0
    ELSE 10 * DigitsValue(SubSeq(ds, 1, Len(ds) - 1)) + ds[Len(ds)]

\* str::parse::<u32>: an optional '+', then one digit or more, no overflow
ParseU32(s) ==
    LET body == IF Len(s) > 1 /\ s[1] = "+" THEN Tail(s) ELSE s
    IN  IF body = <<>> \/ \E i \in 1..Len(body) : ~IsDigit(body[i])
        THEN Err(<<"invalid digit found in string">>)
        ELSE LET ds == [i \in 1..Len(body) |-> DigitValue(body[i])]
             IN  IF FitsU32(ds) THEN Ok(DigitsValue(StripZeros(ds)))
                 ELSE Err(<<"number too large to fit in target type">>)

\* str::split(sep): the pieces between the separators, empty ones included
RECURSIVE Split(_, _)
Split(s, sep) ==
    IF \E i \in 1..Len(s) : s[i] = sep
    THEN LET i == CHOOSE k \in 1..Len(s) :
                      s[k] = sep /\ \A j \in 1..(k - 1) : s[j] # sep
         IN  <<SubSeq(s, 1, i - 1)>> \o Split(SubSeq(s, i + 1, Len(s)), sep)
    ELSE <<s>>

(***************************************************************************)
(* types.rs: InningsPitched.                                               *)
(***************************************************************************)
\* InningsPitched::new
InningsPitchedNew(innings) ==
    LET parts == Split(innings, ".")
        invalid == Err(<<"Invalid innings format: ">> \o innings)
    IN  CASE Len(parts) = 1 ->
               LET complete == ParseU32(parts[1])
               IN  IF ~complete.ok THEN invalid
                   ELSE Ok([complete |-> complete.val, partial |-> 0])
          [] Len(parts) = 2 ->
               LET complete == ParseU32(parts[1])
                   partial == ParseU32(parts[2])
               IN  IF ~complete.ok THEN invalid
                   ELSE IF ~partial.ok THEN invalid
                   ELSE IF partial.val >= 3
                   THEN Err(<<"Invalid partial innings: ">> \o FormatU32(partial.val)
                            \o <<". Must be less than 3">>)
                   ELSE Ok([complete |-> complete.val, partial |-> partial.val])
          [] OTHER -> invalid

\* Display for InningsPitched writing a whole number of innings without ".0"
InningsPitchedDisplay_DropsZero(ip) ==
    IF ip.partial = 0 THEN FormatU32(ip.complete)
    ELSE FormatU32(ip.complete) \o <<".">> \o FormatU32(ip.partial)
\* impl fmt::Display for InningsPitched
InningsPitchedDisplay(ip) ==
    IF ip.partial = 0 THEN FormatU32(ip.complete) \o <<".", "0">>
    ELSE FormatU32(ip.complete) \o <<".">> \o FormatU32(ip.partial)

\* the texts of at most n characters of an alphabet
TextsUpTo(alphabet, n) ==
    UNION {[1..k -> alphabet] : k \in 0..n}
\* counts of complete innings: the small ones and the largest 31-bit one
Completes == (0..MaxComplete) \cup {100, 2147483647}
\* thirds of an inning a struct literal can hold; 3 is not a valid one
Partials == 0..3
InningsTexts == TextsUpTo({"6", "0", "2", "3", ".", "+", "x"}, MaxTextLen)

\* InningsPitched { complete, partial }.to_string(), then InningsPitched::new
InningsPitchedRoundtrip ==
    /\ call.fn = "none"
    /\ \E complete \in Completes, partial \in Partials :
          LET original == [complete |-> complete, partial |-> partial]
              formatted == InningsPitchedDisplay(original)
          IN  call' = [fn |-> "innings_pitched_roundtrip",
                       original |-> original,
                       formatted |-> formatted,
                       parsed |-> InningsPitchedNew(formatted)]
    /\ UNCHANGED nonTypesVars
\* InningsPitched::new(text), and to_string() of what it gave
InningsPitchedReserialize ==
    /\ call.fn = "none"
    /\ \E text \in InningsTexts :
          LET parsed == InningsPitchedNew(text)
          IN  call' = [fn |-> "innings_pitched_reserialize",
                       text |-> text,
                       parsed |-> parsed,
                       formatted |-> IF parsed.ok THEN InningsPitchedDisplay(parsed.val)
                                     ELSE <<>>]
    /\ UNCHANGED nonTypesVars

(***************************************************************************)
(* f32.  A non-negative finite f32 is mant * 2^(-exp) with a mantissa of   *)
(* 24 bits (2^23 <= mant < 2^24), or zero; every operation rounds its      *)
(* exact result to the nearest such value, ties to the even mantissa.      *)
(***************************************************************************)
\* f32::MANTISSA_DIGITS
F32MantissaBits == 24
RECURSIVE Pow2(_)
Pow2(n) == IF n = 0 THEN 1 ELSE 2 * Pow2(n - 1)
F32Zero == [mant |-> 0, exp |-> 0]
F32One == [mant |-> Pow2(F32MantissaBits - 1), exp |-> F32MantissaBits - 1]
\* n / d rounded to the nearest integer, ties to even
RoundTiesEven(n, d) ==
    LET q == n \div d
        r == n % d
    IN  IF 2 * r > d \/ (2 * r = d /\ q % 2 = 1) THEN q + 1 ELSE q
\* a mantissa rounded up to 2^24 is 2^23 with the next exponent
F32Renormalize(mant, exp) ==
    IF mant = Pow2(F32MantissaBits)
    THEN [mant |-> Pow2(F32MantissaBits - 1), exp |-> exp - 1]
    ELSE [mant |-> mant, exp |-> exp]
\* n * 2^exp scaled up until n / d has 24 bits
RECURSIVE F32Scale(_, _, _)
F32Scale(n, d, exp) ==
    IF n >= Pow2(F32MantissaBits - 1) * d THEN [n |-> n, exp |-> exp]
    ELSE F32Scale(2 * n, d, exp + 1)
\* hits as f32 / at_bats as f32, both small integers (exact as f32)
F32Div(h, a) ==
    IF h = 0 THEN F32Zero
    ELSE LET sc == F32Scale(h, a, 0)
         IN  F32Renormalize(RoundTiesEven(sc.n, a), sc.exp)
\* v * 1000.0: the exact product is (mant * 125) * 2^(3 - exp), of 30 or 31
\* bits, rounded to 24
F32Mul1000(v) ==
    IF v.mant = 0 THEN F32Zero
    ELSE LET n == v.mant * 125
             shift == IF n < Pow2(30) THEN 6 ELSE 7
         IN  F32Renormalize(RoundTiesEven(n, Pow2(shift)), v.exp - 3 - shift)
\* v > 1.0
F32GreaterThanOne(v) ==
    v.mant # 0 /\ (v.exp < F32One.exp \/ (v.exp = F32One.exp /\ v.mant > F32One.mant))
\* v.round() as u32, for v below 2^24: half-way cases away from zero
F32RoundAsU32(v) ==
    IF v.mant = 0 \/ v.exp > F32MantissaBits THEN 0
    ELSE IF v.exp <= 0 THEN v.mant * Pow2(0 - v.exp)
    ELSE (v.mant + Pow2(v.exp - 1)) \div Pow2(v.exp)

(***************************************************************************)
(* types.rs: Average, and utils.rs: calculate_average.                     *)
(***************************************************************************)
\* Average::new: a value below 0 or above 1 is an error
AverageNew(value) ==
    IF F32GreaterThanOne(value)
    THEN Err(<<"Invalid average value. Must be between 0 and 1">>)
    ELSE Ok(value)
\* format!("{:03}", n): at least three digits, zeros on the left
PadThreeDigits(digits) ==
    IF Len(digits) >= 3 THEN digits
    ELSE [i \in 1..(3 - Len(digits)) |-> "0"] \o digits
\* Average::format
AverageFormat(average) ==
    <<".">> \o PadThreeDigits(FormatU32(F32RoundAsU32(F32Mul1000(average))))
\* calculate_average
CalculateAverage(hits, at_bats) ==
    IF at_bats > 0
    THEN LET avg == AverageNew(F32Div(hits, at_bats))
         IN  IF avg.ok THEN Some(avg.val) ELSE None
    ELSE None

\* hit and at-bat counts of a line
Counts == 0..MaxComplete
\* calculate_average(hits, at_bats).map(|a| a.format())
CallCalculateAverage ==
    /\ call.fn = "none"
    /\ \E hits \in Counts, at_bats \in Counts :
          LET average == CalculateAverage(hits, at_bats)
          IN  call' = [fn |-> "calculate_average",
                       hits |-> hits,
                       at_bats |-> at_bats,
                       average |-> average,
                       formatted |-> IF average.some THEN AverageFormat(average.v)
                                     ELSE <<>>]
    /\ UNCHANGED nonTypesVars

(***************************************************************************)
(* mlb.rs: the derived Deserialize of GameState, variants renamed to       *)
(* PascalCase (their own names) and Unknown marked #[serde(other)].        *)
(***************************************************************************)
\* the derive without #[serde(other)]: an unknown name is an error
DeserializeGameState_NoOther(v) ==
    IF v.t # "str" THEN Err(<<"invalid type: expected variant identifier">>)
    ELSE IF v.s \in GameStates THEN Ok(v.s)
    ELSE Err(<<"unknown variant">>)
\* serde_json::from_value::<GameState>
DeserializeGameState(v) ==
    IF v.t # "str" THEN Err(<<"invalid type: expected variant identifier">>)
    ELSE IF v.s \in GameStates THEN Ok(v.s)
    ELSE Ok("Unknown")

\* JSON values handed to the deserializer: the names, other strings, no string
GameStateInputs ==
    {JStr(s) : s \in GameStates \cup {"In Progress", "Preview", "final", "FINAL",
                                      "", "Final "}}
    \cup {JNull, JPosInt(0, 1), JBool(TRUE)}
CallDeserializeGameState ==
    /\ call.fn = "none"
    /\ \E v \in GameStateInputs :
          call' = [fn |-> "deserialize_game_state",
                   input |-> v,
                   state |-> DeserializeGameState(v)]
    /\ UNCHANGED nonTypesVars

(***************************************************************************)
(* utils.rs: truncate_string.  str::len counts bytes and a slice must end  *)
(* between two characters, so a character carries its UTF-8 width.         *)
(***************************************************************************)
\* the largest max_len drawn as an input
MaxLen == 5
\* a character of one byte and a character of two bytes
TruncateAlphabet == {"a", "E"}
Utf8Len(c) == IF c = "E" THEN 2 ELSE 1
RECURSIVE ByteLen(_)
ByteLen(s) == IF s = <<>> THEN 0 ELSE Utf8Len(Head(s)) + ByteLen(Tail(s))
\* &s[0..n]: the characters of the first n bytes; a panic when byte n is
\* inside a character
SliceTo(s, n) ==
    IF \E k \in 0..Len(s) : ByteLen(SubSeq(s, 1, k)) = n
    THEN [panic |-> FALSE,
          text |-> SubSeq(s, 1, CHOOSE k \in 0..Len(s) : ByteLen(SubSeq(s, 1, k)) = n)]
    ELSE [panic |-> TRUE]
\* max_len.saturating_sub(3)
SaturatingSub(a, b) == IF a >= b THEN a - b ELSE 0
\* truncate_string
TruncateString(s, max_len) ==
    IF ByteLen(s) <= max_len THEN [panic |-> FALSE, text |-> s]
    ELSE LET head == SliceTo(s, SaturatingSub(max_len, 3))
         IN  IF head.panic THEN head
             ELSE [panic |-> FALSE, text |-> head.text \o <<".", ".", ".">>]

TruncateTexts == TextsUpTo(TruncateAlphabet, MaxTextLen + 2)
CallTruncateString ==
    /\ call.fn = "none"
    /\ \E s \in TruncateTexts, max_len \in 0..MaxLen :
          call' = [fn |-> "truncate_string",
                   s |-> s,
                   max_len |-> max_len,
                   truncated |-> TruncateString(s, max_len)]
    /\ UNCHANGED nonTypesVars

\* utils.rs: format_decimal_stat
FormatDecimalStat(value) ==
    IF value.some
    THEN <<".">> \o PadThreeDigits(FormatU32(F32RoundAsU32(F32Mul1000(value.v))))
    ELSE <<"-", "-", "-">>
\* the largest f32 below 1.0
F32BelowOne == [mant |-> Pow2(F32MantissaBits) - 1, exp |-> F32MantissaBits]
\* v < 1.0
F32LessThanOne(v) == v.mant = 0 \/ v.exp > F32One.exp
\* rates given to the formatting functions: the quotients of two counts, 0.0
\* and 1.0 among them, and the f32 next below 1.0; none is negative
F32Rates ==
    {F32Div(h, a) : h \in Counts, a \in Counts \ {0}} \cup {F32BelowOne}
\* Average::new(value).map(|a| a.format())
CallAverageFormat ==
    /\ call.fn = "none"
    /\ \E value \in F32Rates :
          LET average == AverageNew(value)
          IN  call' = [fn |-> "average_format",
                       value |-> value,
                       created |-> average.ok,
                       formatted |-> IF average.ok THEN AverageFormat(average.val)
                                     ELSE <<>>]
    /\ UNCHANGED nonTypesVars
\* format_decimal_stat(value)
CallFormatDecimalStat ==
    /\ call.fn = "none"
    /\ \E value \in {None} \cup {Some(v) : v \in F32Rates} :
          call' = [fn |-> "format_decimal_stat",
                   value |-> value,
                   formatted |-> FormatDecimalStat(value)]
    /\ UNCHANGED nonTypesVars

\* the status objects given to the four normalizers: abstractGameState with
\* each of its values, and no abstractGameState
StatusObjects ==
    {JObj([abstractGameState |-> v]) : v \in StatusValues}
    \cup {JObj([detailedState |-> JStr("In Progress")])}
\* the status lines of get_game, get_todays_games, get_yesterdays_games and
\* try_feed_live_endpoint, run on one status object
CallStatusTables ==
    /\ call.fn = "none"
    /\ \E status_value \in StatusObjects :
          LET status_abstract_game_state == AbstractGameState(status_value)
          IN  call' = [fn |-> "status_tables",
                       status_value |-> status_value,
                       get_game |-> MapStatusGetGame(status_abstract_game_state),
                       get_todays_games |->
                           MapStatusTodaysGames(status_abstract_game_state),
                       get_yesterdays_games |->
                           MapStatusYesterdaysGames(status_abstract_game_state),
                       try_feed_live_endpoint |->
                           MapStatusFeedLive(status_abstract_game_state)]
    /\ UNCHANGED nonTypesVars

\* Game::winner that does not look at the status
GameWinner_AnyStatus(game) ==
    IF UnwrapOr(game.teams.home.is_winner, FALSE) THEN Some(game.teams.home.team)
    ELSE IF UnwrapOr(game.teams.away.is_winner, FALSE) THEN Some(game.teams.away.team)
    ELSE None
\* Game::is_finished
IsFinished(game) == game.status = "Final"
\* Game::winner
GameWinner(game) ==
    IF IsFinished(game)
    THEN IF UnwrapOr(game.teams.home.is_winner, FALSE)
         THEN Some(game.teams.home.team)
         ELSE IF UnwrapOr(game.teams.away.is_winner, FALSE)
         THEN Some(game.teams.away.team)
         ELSE None
    ELSE None
\* games of every status with every pair of winner flags
WinnerFlags == {None, Some(TRUE), Some(FALSE)}
WinnerGames ==
    {[status |-> st,
      teams |-> [home |-> [team |-> "NYY", is_winner |-> h],
                 away |-> [team |-> "BOS", is_winner |-> a]]] :
        st \in GameStates, h \in WinnerFlags, a \in WinnerFlags}
CallGameWinner ==
    /\ call.fn = "none"
    /\ \E game \in WinnerGames :
          call' = [fn |-> "winner", game |-> game, winner |-> GameWinner(game)]
    /\ UNCHANGED nonTypesVars

\* the caller drops the value; the next call starts from nothing
DropResult ==
    /\ call.fn # "none"
    /\ call' = [fn |-> "none"]
    /\ UNCHANGED nonTypesVars

NextTypes ==
    \/ InningsPitchedRoundtrip
    \/ InningsPitchedReserialize
    \/ CallCalculateAverage
    \/ CallAverageFormat
    \/ CallFormatDecimalStat
    \/ CallDeserializeGameState
    \/ CallStatusTables
    \/ CallGameWinner
    \/ CallTruncateString
    \/ DropResult

SpecTypes == Init /\ [][NextTypes]_vars

(***************************************************************************)
(* C12.  For every complete and every partial of 0, 1, 2, formatting an    *)
(* InningsPitched and parsing the text with InningsPitched::new succeeds   *)
(* and gives back the same complete and partial; the text always ends in   *)
(* '.' and the partial digit, so "6.2" is written again as "6.2", "6.0" as *)
(* "6.0", and no text is written as "6".                                   *)
(***************************************************************************)
EndsInPartialDigit(text, partial) ==
    /\ Len(text) >= 3
    /\ text[Len(text) - 1] = "."
    /\ text[Len(text)] = DigitChars[partial + 1]
    /\ \A i \in 1..(Len(text) - 2) : IsDigit(text[i])
C12_InningsPitchedRoundtrip ==
    /\ (call.fn = "innings_pitched_roundtrip" /\ call.original.partial \in {0, 1, 2}) =>
          /\ call.parsed.ok
          /\ call.parsed.val.complete = call.original.complete
          /\ call.parsed.val.partial = call.original.partial
          /\ EndsInPartialDigit(call.formatted, call.original.partial)
    /\ (call.fn = "innings_pitched_reserialize" /\ call.parsed.ok) =>
          /\ EndsInPartialDigit(call.formatted, call.parsed.val.partial)
          /\ call.formatted # <<"6">>
          /\ call.text \in {<<"6", ".", "2">>, <<"6", ".", "0">>} =>
                call.formatted = call.text
\* 6 complete innings and 2 thirds went through the text "6.2"
C12_Witness ==
    /\ call.fn = "innings_pitched_roundtrip"
    /\ call.original = [complete |-> 6, partial |-> 2]
    /\ call.formatted = <<"6", ".", "2">>
    /\ call.parsed.ok

(***************************************************************************)
(* C13.  As claimed: calculate_average(hits, at_bats) is None for no       *)
(* at-bats, and for hits <= at_bats, at_bats > 0, its formatted text is    *)
(* '.' followed by exactly three digits that read round(1000 * hits /      *)
(* at_bats).                                                               *)
(***************************************************************************)
\* 1000 * hits / at_bats rounded to the nearest integer, a half upwards
RoundedPerMille(hits, at_bats) == (2000 * hits + at_bats) \div (2 * at_bats)
C13_AverageThreeDigits ==
    call.fn = "calculate_average" =>
        /\ call.at_bats = 0 => ~call.average.some
        /\ (call.at_bats > 0 /\ call.hits <= call.at_bats) =>
              /\ call.average.some
              /\ Len(call.formatted) = 4
              /\ call.formatted[1] = "."
              /\ \A i \in 2..4 : IsDigit(call.formatted[i])
              /\ DigitsValue([i \in 1..3 |-> DigitValue(call.formatted[i + 1])])
                    = RoundedPerMille(call.hits, call.at_bats)

(***************************************************************************)
(* C19.  Deserializing a GameState from a JSON string never fails: each of *)
(* the names Scheduled, Live, Final, Postponed, Cancelled, Suspended and   *)
(* Unknown gives the variant of that name, every other string Unknown.     *)
(***************************************************************************)
C19_GameStateDeserializeTotal ==
    (call.fn = "deserialize_game_state" /\ call.input.t = "str") =>
        /\ call.state.ok
        /\ call.state.val =
              IF call.input.s \in {"Scheduled", "Live", "Final", "Postponed",
                                   "Cancelled", "Suspended", "Unknown"}
              THEN call.input.s
              ELSE "Unknown"
\* "In Progress" was deserialized to Unknown
C19_Witness ==
    /\ call.fn = "deserialize_game_state"
    /\ call.input = JStr("In Progress")
    /\ call.state = Ok("Unknown")

(***************************************************************************)
(* C20.  As claimed: for every string s and every max_len >= 1,            *)
(* truncate_string(s, max_len) returns a string of length at most max_len, *)
(* s itself when s is no longer than max_len, and a string ending in "..." *)
(* otherwise.                                                              *)
(***************************************************************************)
EndsWithDots(text) ==
    Len(text) >= 3 /\ SubSeq(text, Len(text) - 2, Len(text)) = <<".", ".", ".">>
C20_TruncateWithinMaxLen ==
    (call.fn = "truncate_string" /\ call.max_len >= 1) =>
        /\ ~call.truncated.panic
        /\ ByteLen(call.truncated.text) <= call.max_len
        /\ ByteLen(call.s) <= call.max_len => call.truncated.text = call.s
        /\ ByteLen(call.s) > call.max_len => EndsWithDots(call.truncated.text)

(***************************************************************************)
(* config.rs: get_config.  OnceLock::get_or_init reads the cell; when it   *)
(* is not complete the thread enters the Once, which lets one thread run   *)
(* the initializer and blocks the others until the value is stored.  The   *)
(* initializer reads three environment variables, one after the other.     *)
(***************************************************************************)
DefaultOf(name) ==
    CASE name = "MLB_API_BASE_URL" -> "https://statsapi.mlb.com/api/v1"
      [] name = "NBA_API_BASE_URL" -> "https://api.balldontlie.io/v1"
      [] name = "NBA_API_KEY" -> ""
\* env::var(name).unwrap_or_else(|_| default)
EnvVarOrDefault(name) ==
    IF env[name].some THEN env[name].v ELSE DefaultOf(name)
\* what the environment may hold in a variable
EnvValues(name) ==
    CASE name = "MLB_API_BASE_URL" -> {None, Some("http://localhost:8080/mlb")}
      [] name = "NBA_API_BASE_URL" -> {None, Some("http://localhost:8080/nba")}
      [] name = "NBA_API_KEY" -> {None, Some("secret")}

\* the environment sets or unsets a variable (before or while the threads run)
SetEnv ==
    /\ \E name \in EnvNames :
          \E value \in EnvValues(name) :
             /\ value # env[name]
             /\ env' = [env EXCEPT ![name] = value]
    /\ UNCHANGED <<CONFIG, tpc, tlocal, installed, observed>>
    /\ UNCHANGED nonConfigVars

\* get_or_init: the read of the cell; a complete cell is returned at once
CallGetConfig(t) ==
    /\ tpc[t] = "idle"
    /\ IF CONFIG.state = "complete"
       THEN /\ observed' = observed \cup {CONFIG.value}
            /\ tpc' = [tpc EXCEPT ![t] = "returned"]
       ELSE /\ tpc' = [tpc EXCEPT ![t] = "initialize"]
            /\ UNCHANGED observed
    /\ UNCHANGED <<env, CONFIG, tlocal, installed>>
    /\ UNCHANGED nonConfigVars

\* EnterOnce without the exclusion: a thread runs the initializer although
\* another one is running it
EnterOnce_Unguarded(t) ==
    /\ tpc[t] = "initialize"
    /\ IF CONFIG.state = "complete"
       THEN /\ observed' = observed \cup {CONFIG.value}
            /\ tpc' = [tpc EXCEPT ![t] = "returned"]
            /\ UNCHANGED CONFIG
       ELSE /\ CONFIG' = [state |-> "running"]
            /\ tpc' = [tpc EXCEPT ![t] = "read_mlb_api_base_url"]
            /\ UNCHANGED observed
    /\ UNCHANGED <<env, tlocal, installed>>
    /\ UNCHANGED nonConfigVars
\* the Once: an incomplete cell makes this thread the initializer, a complete
\* one is returned, a running one blocks the thread
EnterOnce(t) ==
    /\ tpc[t] = "initialize"
    /\ CONFIG.state # "running"
    /\ IF CONFIG.state = "complete"
       THEN /\ observed' = observed \cup {CONFIG.value}
            /\ tpc' = [tpc EXCEPT ![t] = "returned"]
            /\ UNCHANGED CONFIG
       ELSE /\ CONFIG' = [state |-> "running"]
            /\ tpc' = [tpc EXCEPT ![t] = "read_mlb_api_base_url"]
            /\ UNCHANGED observed
    /\ UNCHANGED <<env, tlocal, installed>>
    /\ UNCHANGED nonConfigVars

\* the three statements of the closure
ReadMlbApiBaseUrl(t) ==
    /\ tpc[t] = "read_mlb_api_base_url"
    /\ tlocal' = [tlocal EXCEPT
                     ![t].mlb_api_base_url = EnvVarOrDefault("MLB_API_BASE_URL")]
    /\ tpc' = [tpc EXCEPT ![t] = "read_nba_api_base_url"]
    /\ UNCHANGED <<env, CONFIG, installed, observed>>
    /\ UNCHANGED nonConfigVars
ReadNbaApiBaseUrl(t) ==
    /\ tpc[t] = "read_nba_api_base_url"
    /\ tlocal' = [tlocal EXCEPT
                     ![t].nba_api_base_url = EnvVarOrDefault("NBA_API_BASE_URL")]
    /\ tpc' = [tpc EXCEPT ![t] = "read_nba_api_key"]
    /\ UNCHANGED <<env, CONFIG, installed, observed>>
    /\ UNCHANGED nonConfigVars
ReadNbaApiKey(t) ==
    /\ tpc[t] = "read_nba_api_key"
    /\ tlocal' = [tlocal EXCEPT ![t].nba_api_key = EnvVarOrDefault("NBA_API_KEY")]
    /\ tpc' = [tpc EXCEPT ![t] = "install"]
    /\ UNCHANGED <<env, CONFIG, installed, observed>>
    /\ UNCHANGED nonConfigVars

\* the closure returns its Config: the Once stores it, completes and wakes the
\* blocked threads; get_or_init returns the stored value
InstallConfig(t) ==
    /\ tpc[t] = "install"
    /\ CONFIG' = [state |-> "complete", value |-> tlocal[t]]
    /\ installed' = Append(installed, tlocal[t])
    /\ observed' = observed \cup {tlocal[t]}
    /\ tlocal' = [tlocal EXCEPT ![t] = NoConfig]
    /\ tpc' = [tpc EXCEPT ![t] = "returned"]
    /\ UNCHANGED env
    /\ UNCHANGED nonConfigVars

\* the caller is done with the reference and may call again
ConfigCallerContinues(t) ==
    /\ tpc[t] = "returned"
    /\ tpc' = [tpc EXCEPT ![t] = "idle"]
    /\ UNCHANGED <<env, CONFIG, tlocal, installed, observed>>
    /\ UNCHANGED nonConfigVars

NextConfig ==
    \/ SetEnv
    \/ \E t \in Threads : CallGetConfig(t)
    \/ \E t \in Threads : EnterOnce(t)
    \/ \E t \in Threads : ReadMlbApiBaseUrl(t)
    \/ \E t \in Threads : ReadNbaApiBaseUrl(t)
    \/ \E t \in Threads : ReadNbaApiKey(t)
    \/ \E t \in Threads : InstallConfig(t)
    \/ \E t \in Threads : ConfigCallerContinues(t)

SpecConfig == Init /\ [][NextConfig]_vars

(***************************************************************************)
(* C14.  Under any interleaving of get_config callers the initializer's    *)
(* result is installed exactly once, every caller observes the same Config *)
(* value, and that value never changes afterwards, whatever the            *)
(* environment variables become later.                                     *)
(***************************************************************************)
C14_ConfigInstalledOnce ==
    /\ Len(installed) <= 1
    /\ (CONFIG.state = "complete") = (Len(installed) = 1)
    /\ CONFIG.state = "complete" => CONFIG.value = installed[1]
    /\ observed \subseteq {installed[i] : i \in 1..Len(installed)}
    /\ Cardinality(observed) <= 1
    /\ \A t \in Threads : tpc[t] = "returned" => CONFIG.state = "complete"
\* two callers hold the value installed from an environment without an API
\* key, and the environment has been given a key since
C14_Witness ==
    /\ \A t \in Threads : tpc[t] = "returned"
    /\ Len(installed) = 1
    /\ observed = {installed[1]}
    /\ installed[1].nba_api_key = ""
    /\ env["NBA_API_KEY"] = Some("secret")
    /\ CONFIG.value = installed[1]

(***************************************************************************)
(* main.rs: one run of the program.  main runs its sections in a fixed     *)
(* order: today's MLB listing, today's NBA listing, yesterday's MLB        *)
(* listing, yesterday's NBA listing, the subcommand; each only when the    *)
(* arguments ask for it.  A step is the code between two awaits.  What a   *)
(* provider call returns is abstracted to Ok or Err and, for a listing,    *)
(* the identifiers and statuses of its games.                              *)
(***************************************************************************)
\* the most games a listing holds
MaxListed == 2
Sections == <<"todays_mlb", "todays_nba", "yesterday_mlb", "yesterday_nba", "command">>
MlbListings == {"todays_mlb", "yesterday_mlb"}
NbaListings == {"todays_nba", "yesterday_nba"}
\* the if conditions around the sections of main
SectionRequested(a, name) ==
    CASE name = "todays_mlb" -> a.todays_games /\ a.fetch_mlb
      [] name = "todays_nba" -> a.todays_games /\ a.fetch_nba
      [] name = "yesterday_mlb" -> a.yesterday_games /\ a.fetch_mlb
      [] name = "yesterday_nba" -> a.yesterday_games /\ a.fetch_nba
      [] name = "command" -> a.command # "none"
\* the first requested section from position i on; Len(Sections) + 1 when
\* main has nothing more to run
RECURSIVE NextSection(_, _)
NextSection(a, i) ==
    IF i > Len(Sections) THEN i
    ELSE IF SectionRequested(a, Sections[i]) THEN i
    ELSE NextSection(a, i + 1)

\* the ids given to mlb game --id, a u64: 1 and 2^32 + 1
GameIds64 == {U64(0, 1), U64(1, 1)}
\* command lines: the two listing flags, --leagues, --detailed-stats and the
\* subcommands mlb team and mlb game --id
ArgsSet ==
    {[todays_games |-> t, yesterday_games |-> y, fetch_mlb |-> l[1],
      fetch_nba |-> l[2], detailed_stats |-> d, command |-> c[1], id |-> c[2]] :
        t \in BOOLEAN, y \in BOOLEAN, d \in BOOLEAN,
        l \in BOOLEAN \X BOOLEAN,
        c \in {<<"none", U64(0, 0)>>, <<"mlb team", U64(0, 1)>>}
              \cup {<<"mlb game", id>> : id \in GameIds64}}

Line(text, id, detail) == [text |-> text, id |-> id, detail |-> detail]
MlbRequest(base, path, id) ==
    [provider |-> "mlb", base |-> base, path |-> path, id |-> id, key |-> ""]
NbaRequest(config, path, id) ==
    [provider |-> "nba", base |-> config.nba_api_base_url, path |-> path, id |-> id,
     key |-> config.nba_api_key]

\* get_mlb_api_base_url: the OnceLock initialized with the literal
GetMlbApiBaseUrl ==
    IF MLB_API_BASE_URL.some THEN MLB_API_BASE_URL.v
    ELSE "https://statsapi.mlb.com/api/v1"
\* get_config called by main, the only thread: the closure runs at once
GetConfig ==
    IF CONFIG.state = "complete" THEN CONFIG.value
    ELSE [mlb_api_base_url |-> EnvVarOrDefault("MLB_API_BASE_URL"),
          nba_api_base_url |-> EnvVarOrDefault("NBA_API_BASE_URL"),
          nba_api_key |-> EnvVarOrDefault("NBA_API_KEY")]
ConfigRead ==
    /\ CONFIG' = [state |-> "complete", value |-> GetConfig]
    /\ installed' = IF CONFIG.state = "complete" THEN installed
                    ELSE Append(installed, GetConfig)
\* a call of an mlb function: the base URL is initialized, CONFIG is not read
MlbSend(path, id) ==
    /\ MLB_API_BASE_URL' = Some(GetMlbApiBaseUrl)
    /\ sent' = Append(sent, MlbRequest(GetMlbApiBaseUrl, path, id))
    /\ UNCHANGED <<CONFIG, installed, NBA_API_INSTANCE>>

\* the listings a provider may answer with: games 1..n, each with a status
ListingsOf(statuses) ==
    {[i \in 1..Len(st) |-> [id |-> i, status |-> st[i]]] :
        st \in SeqsUpTo(statuses, MaxListed)}
MlbStatuses == {"Final", "Live"}
NbaStatuses == {"Final", "final", ""}

\* the environment the process is started in
PrepareEnv ==
    /\ mpc = "start"
    /\ SetEnv
\* Args::parse()
Launch ==
    /\ mpc = "start"
    /\ \E a \in ArgsSet : args' = a
    /\ mpc' = "dispatch"
    /\ UNCHANGED <<sec, games, gi, printed, sent, finished, exit_code,
                   MLB_API_BASE_URL, NBA_API_INSTANCE, CONFIG, installed>>
    /\ UNCHANGED nonMainVars

\* the end of a section: main goes on to the next if
FinishSection ==
    /\ finished' = Append(finished, Sections[sec])
    /\ mpc' = "dispatch"
    /\ UNCHANGED sec
\* the section main runs next: the first requested one after the one that ran
Upcoming ==
    NextSection(args, IF finished # <<>> /\ finished[Len(finished)] = Sections[sec]
                      THEN sec + 1 ELSE sec)
\* the end of the body of the for loop over the games
NextGame(show) ==
    IF gi < Len(games)
    THEN /\ gi' = gi + 1
         /\ mpc' = show
         /\ UNCHANGED <<finished, sec>>
    ELSE /\ FinishSection
         /\ UNCHANGED gi

\* no section is left: main returns Ok(())
ExitSuccess ==
    /\ mpc = "dispatch"
    /\ Upcoming > Len(Sections)
    /\ mpc' = "exited"
    /\ exit_code' = Some(0)
    /\ UNCHANGED <<args, sec, games, gi, printed, sent, finished,
                   MLB_API_BASE_URL, NBA_API_INSTANCE, CONFIG, installed>>
    /\ UNCHANGED nonMainVars

\* mlb::get_todays_games() or mlb::get_yesterdays_games(), up to its send
StartMlbListing ==
    /\ mpc = "dispatch"
    /\ Upcoming <= Len(Sections)
    /\ Sections[Upcoming] \in MlbListings
    /\ sec' = Upcoming
    /\ mpc' = "mlb_listing_wait"
    /\ printed' = <<>>
    /\ games' = <<>>
    /\ gi' = 0
    /\ MLB_API_BASE_URL' = Some(GetMlbApiBaseUrl)
    /\ sent' = <<MlbRequest(GetMlbApiBaseUrl, "schedule", 0)>>
    /\ UNCHANGED <<args, finished, exit_code, NBA_API_INSTANCE, CONFIG, installed>>
    /\ UNCHANGED nonMainVars
\* the match on the listing: an error is printed, a list is looped over
MlbListingResponds ==
    /\ mpc = "mlb_listing_wait"
    /\ \E res \in {Err(<<"fetch">>)} \cup {Ok(l) : l \in ListingsOf(MlbStatuses)} :
          IF ~res.ok
          THEN /\ printed' = <<Line("Error fetching MLB games", 0, "")>>
               /\ FinishSection
               /\ UNCHANGED <<games, gi>>
          ELSE IF res.val = <<>>
          THEN /\ printed' = <<Line("MLB Games:", 0, ""), Line("No MLB games", 0, "")>>
               /\ FinishSection
               /\ UNCHANGED <<games, gi>>
          ELSE /\ printed' = <<Line("MLB Games:", 0, "")>>
               /\ games' = res.val
               /\ gi' = 1
               /\ mpc' = "mlb_show_game"
               /\ UNCHANGED <<finished, sec>>
    /\ UNCHANGED <<args, sent, exit_code, MLB_API_BASE_URL, NBA_API_INSTANCE,
                   CONFIG, installed>>
    /\ UNCHANGED nonMainVars
\* MlbShowGame fetching the innings of a game of any status
MlbShowGame_AnyStatus ==
    /\ mpc = "mlb_show_game"
    /\ printed' = Append(printed, Line("Game", games[gi].id, games[gi].status))
    /\ MlbSend("get_game_innings", games[gi].id)
    /\ mpc' = "mlb_innings_wait"
    /\ UNCHANGED <<gi, finished, sec>>
    /\ UNCHANGED <<args, games, exit_code>>
    /\ UNCHANGED nonMainVars
\* the loop body up to its first await: the game is printed; a Final game has
\* its innings fetched, any other gets the not-available line
MlbShowGame ==
    /\ mpc = "mlb_show_game"
    /\ LET game == games[gi]
           shown == Append(printed, Line("Game", game.id, game.status))
       IN  IF game.status = "Final"
           THEN /\ printed' = shown
                /\ MlbSend("get_game_innings", game.id)
                /\ mpc' = "mlb_innings_wait"
                /\ UNCHANGED <<gi, finished, sec>>
           ELSE /\ printed' = Append(shown,
                                     Line("Detailed information not available", game.id, ""))
                /\ NextGame("mlb_show_game")
                /\ UNCHANGED <<sent, MLB_API_BASE_URL, NBA_API_INSTANCE, CONFIG,
                               installed>>
    /\ UNCHANGED <<args, games, exit_code>>
    /\ UNCHANGED nonMainVars
\* MlbInningsResponds with the error of get_game_innings propagated by ?
MlbInningsResponds_Propagates ==
    /\ mpc = "mlb_innings_wait"
    /\ \E ok \in BOOLEAN :
          IF ok
          THEN /\ printed' = Append(printed,
                                    Line("Inning-by-Inning Breakdown:", games[gi].id, ""))
               /\ NextGame("mlb_show_game")
               /\ UNCHANGED exit_code
          ELSE /\ mpc' = "exited"
               /\ exit_code' = Some(1)
               /\ UNCHANGED <<printed, gi, finished, sec>>
    /\ UNCHANGED <<sent, MLB_API_BASE_URL, NBA_API_INSTANCE, CONFIG, installed>>
    /\ UNCHANGED <<args, games>>
    /\ UNCHANGED nonMainVars
\* the match on get_game_innings: the breakdown or the error is printed; with
\* --detailed-stats the stats are fetched next
MlbInningsResponds ==
    /\ mpc = "mlb_innings_wait"
    /\ \E ok \in BOOLEAN :
          LET shown == Append(printed,
                          IF ok THEN Line("Inning-by-Inning Breakdown:", games[gi].id, "")
                          ELSE Line("Error fetching innings data", games[gi].id, ""))
          IN  /\ printed' = shown
              /\ IF args.detailed_stats
                 THEN /\ MlbSend("get_game_stats", games[gi].id)
                      /\ mpc' = "mlb_stats_wait"
                      /\ UNCHANGED <<gi, finished, sec>>
                 ELSE /\ NextGame("mlb_show_game")
                      /\ UNCHANGED <<sent, MLB_API_BASE_URL, NBA_API_INSTANCE, CONFIG,
                                     installed>>
    /\ UNCHANGED <<args, games, exit_code>>
    /\ UNCHANGED nonMainVars
\* the match on get_game_stats
MlbStatsResponds ==
    /\ mpc = "mlb_stats_wait"
    /\ \E ok \in BOOLEAN :
          printed' = Append(printed,
                        IF ok THEN Line("Detailed Statistics:", games[gi].id, "")
                        ELSE Line("Error fetching detailed game stats", games[gi].id, ""))
    /\ NextGame("mlb_show_game")
    /\ UNCHANGED <<args, games, sent, exit_code, MLB_API_BASE_URL, NBA_API_INSTANCE,
                   CONFIG, installed>>
    /\ UNCHANGED nonMainVars

\* the subcommand mlb team --id: mlb::get_team up to its send
StartMlbTeam ==
    /\ mpc = "dispatch"
    /\ Upcoming <= Len(Sections)
    /\ Sections[Upcoming] = "command"
    /\ args.command = "mlb team"
    /\ sec' = Upcoming
    /\ mpc' = "mlb_team_wait"
    /\ printed' = <<>>
    /\ games' = <<>>
    /\ gi' = 0
    /\ MLB_API_BASE_URL' = Some(GetMlbApiBaseUrl)
    /\ sent' = <<MlbRequest(GetMlbApiBaseUrl, "teams", 0)>>
    /\ UNCHANGED <<args, finished, exit_code, NBA_API_INSTANCE, CONFIG, installed>>
    /\ UNCHANGED nonMainVars
\* the match on get_team
MlbTeamResponds ==
    /\ mpc = "mlb_team_wait"
    /\ \E ok \in BOOLEAN :
          printed' = <<IF ok THEN Line("MLB Team Information:", 0, "")
                       ELSE Line("Error fetching MLB team data", 0, "")>>
    /\ FinishSection
    /\ UNCHANGED <<args, games, gi, sent, exit_code, MLB_API_BASE_URL,
                   NBA_API_INSTANCE, CONFIG, installed>>
    /\ UNCHANGED nonMainVars

\* a request of the subcommand mlb game: the id in its URL, a u64 or a u32
MlbGameRequest(base, path, id) ==
    [provider |-> "mlb", base |-> base, path |-> path, id |-> 0, key |-> "",
     game_id |-> id]
MlbGameSend(path, id) ==
    /\ MLB_API_BASE_URL' = Some(GetMlbApiBaseUrl)
    /\ sent' = Append(sent, MlbGameRequest(GetMlbApiBaseUrl, path, id))
    /\ UNCHANGED <<CONFIG, installed, NBA_API_INSTANCE>>
\* the subcommand mlb game --id: mlb::get_game(*id) up to its send
StartMlbGame ==
    /\ mpc = "dispatch"
    /\ Upcoming <= Len(Sections)
    /\ Sections[Upcoming] = "command"
    /\ args.command = "mlb game"
    /\ sec' = Upcoming
    /\ mpc' = "mlb_game_wait"
    /\ printed' = <<>>
    /\ games' = <<>>
    /\ gi' = 0
    /\ MLB_API_BASE_URL' = Some(GetMlbApiBaseUrl)
    /\ sent' = <<MlbGameRequest(GetMlbApiBaseUrl, "get_game", args.id)>>
    /\ UNCHANGED <<args, finished, exit_code, NBA_API_INSTANCE, CONFIG, installed>>
    /\ UNCHANGED nonMainVars
\* the match on get_game, then mlb::get_game_innings(*id as u32) up to its send
MlbGameResponds ==
    /\ mpc = "mlb_game_wait"
    /\ \E ok \in BOOLEAN :
          printed' = <<IF ok THEN Line("Game Information:", 0, "")
                       ELSE Line("Error fetching game data", 0, "")>>
    /\ MlbGameSend("get_game_innings", U64(0, CastU32(args.id)))
    /\ mpc' = "mlb_game_innings_wait"
    /\ UNCHANGED <<args, sec, games, gi, finished, exit_code>>
    /\ UNCHANGED nonMainVars
\* the match on get_game_innings; with --detailed-stats
\* mlb::get_game_stats(*id as u32) up to its send
MlbGameInningsResponds ==
    /\ mpc = "mlb_game_innings_wait"
    /\ \E ok \in BOOLEAN :
          printed' = Append(printed,
                        IF ok THEN Line("Inning-by-Inning Breakdown:", 0, "")
                        ELSE Line("Error fetching innings data", 0, ""))
    /\ IF args.detailed_stats
       THEN /\ MlbGameSend("get_game_stats", U64(0, CastU32(args.id)))
            /\ mpc' = "mlb_game_stats_wait"
            /\ UNCHANGED <<finished, sec>>
       ELSE /\ FinishSection
            /\ UNCHANGED <<sent, MLB_API_BASE_URL, NBA_API_INSTANCE, CONFIG, installed>>
    /\ UNCHANGED <<args, games, gi, exit_code>>
    /\ UNCHANGED nonMainVars
\* the match on get_game_stats
MlbGameStatsResponds ==
    /\ mpc = "mlb_game_stats_wait"
    /\ \E ok \in BOOLEAN :
          printed' = Append(printed,
                        IF ok THEN Line("Detailed Statistics:", 0, "")
                        ELSE Line("Error fetching detailed game stats", 0, ""))
    /\ FinishSection
    /\ UNCHANGED <<args, games, gi, sent, exit_code, MLB_API_BASE_URL,
                   NBA_API_INSTANCE, CONFIG, installed>>
    /\ UNCHANGED nonMainVars

\* nba::get_todays_games() or nba::get_yesterdays_games(), up to its send.
\* get_nba_api() builds the client on first use: create_client reads the key
\* from the configuration, and NbaApi::new calls expect on its result, so an
\* empty key panics and the process ends with the exit code of a panic.
StartNbaListing ==
    /\ mpc = "dispatch"
    /\ Upcoming <= Len(Sections)
    /\ Sections[Upcoming] \in NbaListings
    /\ sec' = Upcoming
    /\ printed' = <<>>
    /\ games' = <<>>
    /\ gi' = 0
    /\ ConfigRead
    /\ IF ~NBA_API_INSTANCE /\ GetConfig.nba_api_key = ""
       THEN /\ mpc' = "exited"
            /\ exit_code' = Some(101)
            /\ sent' = <<>>
            /\ UNCHANGED NBA_API_INSTANCE
       ELSE /\ NBA_API_INSTANCE' = TRUE
            /\ sent' = <<NbaRequest(GetConfig, "games", 0)>>
            /\ mpc' = "nba_listing_wait"
            /\ UNCHANGED exit_code
    /\ UNCHANGED <<args, finished, MLB_API_BASE_URL>>
    /\ UNCHANGED nonMainVars
\* the match on the listing
NbaListingResponds ==
    /\ mpc = "nba_listing_wait"
    /\ \E res \in {Err(<<"fetch">>)} \cup {Ok(l) : l \in ListingsOf(NbaStatuses)} :
          IF ~res.ok
          THEN /\ printed' = <<Line("Error fetching NBA games", 0, "")>>
               /\ FinishSection
               /\ UNCHANGED <<games, gi>>
          ELSE IF res.val = <<>>
          THEN /\ printed' = <<Line("NBA Games:", 0, ""), Line("No NBA games", 0, "")>>
               /\ FinishSection
               /\ UNCHANGED <<games, gi>>
          ELSE /\ printed' = <<Line("NBA Games:", 0, "")>>
               /\ games' = res.val
               /\ gi' = 1
               /\ mpc' = "nba_show_game"
               /\ UNCHANGED <<finished, sec>>
    /\ UNCHANGED <<args, sent, exit_code, MLB_API_BASE_URL, NBA_API_INSTANCE,
                   CONFIG, installed>>
    /\ UNCHANGED nonMainVars
\* the letters of the statuses in upper case
UpperOf(status) == IF status = "final" THEN "FINAL"
                   ELSE IF status = "Final" THEN "FINAL" ELSE status
\* NbaShowGame with the status compared without regard to case
NbaShowGame_IgnoresCase ==
    /\ mpc = "nba_show_game"
    /\ LET game == games[gi]
           final == UpperOf(game.status) = "FINAL"
           shown == Append(printed, Line("Game", game.id,
                                         IF final THEN "Final" ELSE "In Progress"))
       IN  IF final
           THEN /\ printed' = shown
                /\ sent' = Append(sent, NbaRequest(GetConfig, "stats", game.id))
                /\ mpc' = "nba_stats_wait"
                /\ UNCHANGED <<gi, finished, sec>>
           ELSE /\ printed' = Append(shown,
                                     Line("Detailed player statistics not available",
                                          game.id, ""))
                /\ NextGame("nba_show_game")
                /\ UNCHANGED sent
    /\ UNCHANGED <<args, games, exit_code, MLB_API_BASE_URL, NBA_API_INSTANCE,
                   CONFIG, installed>>
    /\ UNCHANGED nonMainVars
\* the loop body up to its first await: the game is printed by its Display,
\* which shows Final for the status "Final" and In Progress for any other; a
\* game whose status is "Final" has its player statistics fetched
NbaShowGame ==
    /\ mpc = "nba_show_game"
    /\ LET game == games[gi]
           shown == Append(printed, Line("Game", game.id,
                                         IF game.status = "Final" THEN "Final"
                                         ELSE "In Progress"))
       IN  IF game.status = "Final"
           THEN /\ printed' = shown
                /\ sent' = Append(sent, NbaRequest(GetConfig, "stats", game.id))
                /\ mpc' = "nba_stats_wait"
                /\ UNCHANGED <<gi, finished, sec>>
           ELSE /\ printed' = Append(shown,
                                     Line("Detailed player statistics not available",
                                          game.id, ""))
                /\ NextGame("nba_show_game")
                /\ UNCHANGED sent
    /\ UNCHANGED <<args, games, exit_code, MLB_API_BASE_URL, NBA_API_INSTANCE,
                   CONFIG, installed>>
    /\ UNCHANGED nonMainVars
\* the match on get_game_player_stats
NbaStatsResponds ==
    /\ mpc = "nba_stats_wait"
    /\ \E ok \in BOOLEAN :
          printed' = Append(printed,
                        IF ok THEN Line("Player Statistics:", games[gi].id, "")
                        ELSE Line("Error fetching player stats", games[gi].id, ""))
    /\ NextGame("nba_show_game")
    /\ UNCHANGED <<args, games, sent, exit_code, MLB_API_BASE_URL, NBA_API_INSTANCE,
                   CONFIG, installed>>
    /\ UNCHANGED nonMainVars

NextMain ==
    \/ PrepareEnv
    \/ Launch
    \/ ExitSuccess
    \/ StartMlbListing
    \/ MlbListingResponds
    \/ MlbShowGame
    \/ MlbInningsResponds
    \/ MlbStatsResponds
    \/ StartMlbTeam
    \/ MlbTeamResponds
    \/ StartMlbGame
    \/ MlbGameResponds
    \/ MlbGameInningsResponds
    \/ MlbGameStatsResponds
    \/ StartNbaListing
    \/ NbaListingResponds
    \/ NbaShowGame
    \/ NbaStatsResponds
\* main is one sequential task: it takes its next step whenever it has one,
\* and every request it awaits is answered, with a response or with an error
SpecMain == Init /\ [][NextMain]_vars /\ WF_vars(NextMain)

\* main has parsed its arguments
Launched == mpc # "start"
\* the section whose output is in printed is over
SectionOver ==
    /\ mpc \in {"dispatch", "exited"}
    /\ finished # <<>>
    /\ finished[Len(finished)] = Sections[sec]
HasLine(line) == \E j \in 1..Len(printed) : printed[j] = line
HasRequest(provider, path, id) ==
    \E j \in 1..Len(sent) :
        sent[j].provider = provider /\ sent[j].path = path /\ sent[j].id = id

\* C15: every MLB request is sent to the configured MLB base URL, the value
\* of Config.mlb_api_base_url, which is MLB_API_BASE_URL when that is set.
C15_MlbBaseUrlConfigured ==
    Launched =>
        \A j \in 1..Len(sent) :
            sent[j].provider = "mlb" => sent[j].base = GetConfig.mlb_api_base_url

\* the sections of main that are MLB operations
MlbSections == MlbListings \cup {"command"}
\* C16: with the NBA API key absent no NBA request is sent, and every MLB
\* operation requested in the same run, before or after the NBA operation,
\* has completed when the process ends.
C16_NbaKeyAbsenceConfined ==
    (Launched /\ GetConfig.nba_api_key = "") =>
        /\ \A j \in 1..Len(sent) : sent[j].provider # "nba"
        /\ mpc = "exited" =>
              \A k \in 1..Len(Sections) :
                  (Sections[k] \in MlbSections /\ SectionRequested(args, Sections[k]))
                      => \E f \in 1..Len(finished) : finished[f] = Sections[k]

\* a game's fetch has been sent and answered
FetchAnswered(path, wait, i) ==
    /\ HasRequest("mlb", path, games[i].id)
    /\ ~(mpc = wait /\ gi = i)
\* every answered fetch of an MLB listing left a line: its result or its error
FetchesRendered ==
    (Launched /\ Sections[sec] \in MlbListings) =>
        \A i \in 1..Len(games) :
            /\ FetchAnswered("get_game_innings", "mlb_innings_wait", i) =>
                  \/ HasLine(Line("Inning-by-Inning Breakdown:", games[i].id, ""))
                  \/ HasLine(Line("Error fetching innings data", games[i].id, ""))
            /\ FetchAnswered("get_game_stats", "mlb_stats_wait", i) =>
                  \/ HasLine(Line("Detailed Statistics:", games[i].id, ""))
                  \/ HasLine(Line("Error fetching detailed game stats", games[i].id, ""))
\* the loop over the games of an MLB listing is running
MlbLoopRuns ==
    /\ mpc \in {"mlb_show_game", "mlb_innings_wait", "mlb_stats_wait"}
    /\ Sections[sec] \in MlbListings
\* the MLB listing is over and every game of the list was printed
MlbListingComplete ==
    /\ SectionOver
    /\ Sections[sec] \in MlbListings
    /\ \A i \in 1..Len(games) : HasLine(Line("Game", games[i].id, games[i].status))
\* the subcommand is over and printed the team or the error
TeamRendered ==
    /\ SectionOver
    /\ Sections[sec] = "command"
    /\ \/ printed = <<Line("MLB Team Information:", 0, "")>>
       \/ printed = <<Line("Error fetching MLB team data", 0, "")>>
\* the run builds the NBA client with an empty key, which panics
PanicAhead ==
    /\ GetConfig.nba_api_key = ""
    /\ \E name \in NbaListings : SectionRequested(args, name)
NbaProcessed(i) == i < gi \/ (i = gi /\ mpc # "nba_show_game")
\* C18: an NBA game whose status is exactly "Final" is printed as Final and
\* has its player statistics requested; a game with any other status, the
\* empty one and "final" included, is printed as in progress and no
\* player-statistics request is made for it.
C18_NbaOnlyExactFinal ==
    (Launched /\ Sections[sec] \in NbaListings) =>
        \A i \in 1..Len(games) :
            LET game == games[i]
            IN  /\ HasRequest("nba", "stats", game.id)
                      <=> (NbaProcessed(i) /\ game.status = "Final")
                /\ NbaProcessed(i) =>
                      /\ HasLine(Line("Game", game.id,
                                      IF game.status = "Final" THEN "Final"
                                      ELSE "In Progress"))
                      /\ game.status # "Final" =>
                            /\ ~HasLine(Line("Game", game.id, "Final"))
                            /\ HasLine(Line("Detailed player statistics not available",
                                            game.id, ""))
\* a listing of a "final" game and a "Final" game is over: the first was
\* printed as in progress without a statistics request, the second as Final
\* with one
C18_Witness ==
    /\ SectionOver
    /\ Sections[sec] \in NbaListings
    /\ Len(games) = 2
    /\ games[1].status = "final"
    /\ games[2].status = "Final"
    /\ HasLine(Line("Game", games[1].id, "In Progress"))
    /\ HasLine(Line("Game", games[2].id, "Final"))
    /\ ~HasRequest("nba", "stats", games[1].id)
    /\ HasRequest("nba", "stats", games[2].id)

\* '.' and three more characters
FourCharsFromDot(text) == Len(text) = 4 /\ text[1] = "."
\* C21: for every v with 0 <= v <= 1 Average::new(v) succeeds and
\* Average::format gives exactly four characters, the first a '.';
\* format_decimal_stat(Some(v)) gives the same shape for 0 <= v < 1, and
\* format_decimal_stat(None) is "---".
C21_FormatFourCharacters ==
    /\ (call.fn = "average_format" /\ ~F32GreaterThanOne(call.value)) =>
          /\ call.created
          /\ FourCharsFromDot(call.formatted)
    /\ call.fn = "format_decimal_stat" =>
          /\ ~call.value.some => call.formatted = <<"-", "-", "-">>
          /\ (call.value.some /\ F32LessThanOne(call.value.v)) =>
                FourCharsFromDot(call.formatted)

\* C22: a rate of exactly 1.0 is formatted as "1.000" and a rate of exactly
\* 0.0 as ".000", by Average::format and by format_decimal_stat alike.
C22_PerfectAndZeroRate ==
    LET rate == IF call.fn = "average_format" THEN call.value ELSE call.value.v
    IN  (\/ call.fn = "average_format" /\ call.created
         \/ call.fn = "format_decimal_stat" /\ call.value.some) =>
            /\ rate = F32One => call.formatted = <<"1", ".", "0", "0", "0">>
            /\ rate = F32Zero => call.formatted = <<".", "0", "0", "0">>

(***************************************************************************)
(* The linescore and the playByPlay candidates of get_game_innings.        *)
(***************************************************************************)
\* the call returned a value, and whose it is: the feed/live candidate's when
\* no other request was issued, else the linescore candidate's
ReturnedInnings == IsInnings /\ pc = "done" /\ result.v.ok
FromLinescore == ReturnedInnings /\ Requested("boxscore")
\* the linescore document said something about the status: it has a status
\* member
LinescoreCarriesStatus ==
    /\ Answered("linescore")
    /\ AnswerTo("linescore").kind = "http"
    /\ AnswerTo("linescore").body.json
    /\ Get(AnswerTo("linescore").body.doc, "status").some

\* C23: a value get_game_innings returns from the linescore candidate has
\* the status Final whatever the linescore and the boxscore documents hold,
\* a status member that is not final included; a returned value with another
\* status comes from the feed/live candidate.
C23_LinescoreAlwaysFinal ==
    /\ FromLinescore => result.v.val.status = "Final"
    /\ Succeeded(LinescoreOutcome) => LinescoreOutcome.v.val.status = "Final"
    /\ (ReturnedInnings /\ result.v.val.status # "Final") =>
          /\ ~Requested("linescore")
          /\ Succeeded(FeedLiveOutcome)
          /\ result.v = FeedLiveOutcome.v
\* the linescore document says the game is Live and the value is Final
C23_Witness ==
    /\ FromLinescore
    /\ LinescoreCarriesStatus
    /\ AbstractGameState(Get(AnswerTo("linescore").body.doc, "status").v) = "Live"
    /\ result.v.val.status = "Final"

\* the position of the request of an endpoint in the log
PositionOf(endpoint) == CHOOSE i \in 1..Len(log) : log[i].endpoint = endpoint
\* the boxscore fetch failed: no answer, a non-2xx status, or a body that is
\* not JSON
BoxscoreFetchFailed ==
    /\ Answered("boxscore")
    /\ LET r == AnswerTo("boxscore")
       IN  r.kind = "transport" \/ ~IsSuccess(r.status) \/ ~r.body.json
\* C24: the linescore candidate issues the linescore request and then the
\* boxscore request; no boxscore request is issued when the linescore
\* response is not 2xx (or did not come); a failed boxscore fetch fails the
\* whole candidate although the linescore fetch succeeded, and the
\* playByPlay candidate is attempted next.
C24_LinescoreThenBoxscore ==
    IsInnings =>
        /\ Requested("boxscore") =>
              /\ Answered("linescore")
              /\ PositionOf("linescore") < PositionOf("boxscore")
              /\ AnswerTo("linescore").kind = "http"
              /\ IsSuccess(AnswerTo("linescore").status)
        /\ (Answered("linescore") /\ ~TryLinescoreSend(AnswerTo("linescore")).ok) =>
              ~Requested("boxscore")
        /\ BoxscoreFetchFailed =>
              /\ TryLinescoreSend(AnswerTo("linescore")).ok
              /\ linescore_error.some
              /\ Requested("playByPlay")
              /\ PositionOf("boxscore") < PositionOf("playByPlay")
              /\ pc = "done" => ~result.v.ok
\* a complete linescore document arrived, the boxscore answered 503, and the
\* call ended in an error after the playByPlay request
C24_Witness ==
    /\ IsInnings
    /\ pc = "done"
    /\ Answered("boxscore")
    /\ AnswerTo("linescore") = Http(200, JsonBody(FullLinescore))
    /\ AnswerTo("boxscore") = Http(503, NotJson)
    /\ Answered("playByPlay")
    /\ ~result.v.ok

\* the number of requests of an endpoint in the log
RequestsOf(endpoint) == Cardinality({i \in 1..Len(log) : log[i].endpoint = endpoint})
\* C25: the playByPlay candidate never yields a value, on a 2xx response
\* either; get_game_innings returns a value exactly when the feed/live or
\* the linescore candidate succeeded, and when both failed it returns the
\* aggregated error after exactly one playByPlay request.
C25_PlayByPlayNeverYields ==
    IsInnings =>
        /\ Answered("playByPlay") =>
              /\ PlayByPlayOutcome.v = TryPlayByPlayEndpoint(AnswerTo("playByPlay"))
              /\ ~PlayByPlayOutcome.v.ok
              /\ pc = "done"
              /\ ~result.v.ok
        /\ pc = "done" =>
              /\ result.v.ok <=>
                    (Succeeded(FeedLiveOutcome) \/ Succeeded(LinescoreOutcome))
              /\ (Failed(FeedLiveOutcome) /\ Failed(LinescoreOutcome)) =>
                    /\ RequestsOf("playByPlay") = 1
                    /\ Answered("playByPlay")
                    /\ result.v = Err(AggregateError(FeedLiveOutcome.v.err,
                                                     LinescoreOutcome.v.err,
                                                     PlayByPlayOutcome.v.err))
\* the playByPlay endpoint answered 200 with a JSON body and the call ended
\* in the aggregated error
C25_Witness ==
    /\ IsInnings
    /\ pc = "done"
    /\ Answered("playByPlay")
    /\ AnswerTo("playByPlay") = Http(200, JsonBody(EmptyObj))
    /\ ~result.v.ok
    /\ RequestsOf("playByPlay") = 1

C30_WinnerOnlyWhenFinal ==
    call.fn = "winner" =>
        LET home == call.game.teams.home
            away == call.game.teams.away
        IN  /\ call.game.status # "Final" => call.winner = None
            /\ call.game.status = "Final" =>
                  /\ home.is_winner = Some(TRUE) => call.winner = Some(home.team)
                  /\ (home.is_winner # Some(TRUE) /\ away.is_winner = Some(TRUE)) =>
                        call.winner = Some(away.team)
                  /\ (home.is_winner # Some(TRUE) /\ away.is_winner # Some(TRUE)) =>
                        call.winner = None
\* a Live game whose home side is flagged the winner has no winner
C30_Witness ==
    /\ call.fn = "winner"
    /\ call.game.status = "Live"
    /\ call.game.teams.home.is_winner = Some(TRUE)
    /\ call.winner = None

\* the loop over the games of an MLB listing has dealt with game i
MlbProcessed(i) == i < gi \/ (i = gi /\ mpc # "mlb_show_game")
\* C29: in a listing get_game_innings is called for a game only if its
\* status is Final, and get_game_stats only if it is Final and
\* --detailed-stats was given; for a game of another status no detail
\* request is sent and the not-available line is printed.
C29_DetailsOnlyForFinal ==
    (Launched /\ Sections[sec] \in MlbListings) =>
        \A i \in 1..Len(games) :
            LET game == games[i]
            IN  /\ HasRequest("mlb", "get_game_innings", game.id) =>
                      game.status = "Final"
                /\ HasRequest("mlb", "get_game_stats", game.id) =>
                      game.status = "Final" /\ args.detailed_stats
                /\ (MlbProcessed(i) /\ game.status # "Final") =>
                      /\ ~HasRequest("mlb", "get_game_innings", game.id)
                      /\ ~HasRequest("mlb", "get_game_stats", game.id)
                      /\ HasLine(Line("Detailed information not available", game.id, ""))
\* a listing of a Live and a Final game is over, without --detailed-stats:
\* the first got the notice and no request, the second its innings request
\* and no statistics request
C29_Witness ==
    /\ SectionOver
    /\ Sections[sec] \in MlbListings
    /\ ~args.detailed_stats
    /\ Len(games) = 2
    /\ games[1].status = "Live"
    /\ games[2].status = "Final"
    /\ HasLine(Line("Detailed information not available", games[1].id, ""))
    /\ ~HasRequest("mlb", "get_game_innings", games[1].id)
    /\ HasRequest("mlb", "get_game_innings", games[2].id)
    /\ ~HasRequest("mlb", "get_game_stats", games[2].id)

\* the subcommand mlb game runs or has run
InGameCommand ==
    Launched /\ Sections[sec] = "command" /\ args.command = "mlb game"
\* C28: in mlb game --id N the innings request and the statistics request
\* are made for the game id N of the game request, for every 64-bit N.
C28_SameGameIdInAllRequests ==
    InGameCommand =>
        \A j \in 1..Len(sent) : sent[j].game_id = args.id

(***************************************************************************)
(* The client statics under concurrent requests.  mlb.rs and nba.rs keep   *)
(* the instance in a OnceLock; mlb/mod.rs keeps it in a static mut that    *)
(* every top-level function tests and assigns in an unsafe block.  Threads *)
(* racing on the static mut is undefined behaviour: its outcomes are taken *)
(* to be those of the interleavings of the test, the assignment (which     *)
(* drops the instance it replaces) and the as_ref.                         *)
(***************************************************************************)
\* a top-level function of module m is called: get_mlb_api() / get_nba_api(),
\* or the unsafe block of mlb/mod.rs
CallTopLevel(t, m) ==
    /\ rpc[t] = "idle"
    /\ callee' = [callee EXCEPT ![t] = m]
    /\ rpc' = [rpc EXCEPT ![t] = IF m \in OnceModules THEN "get_or_init" ELSE "is_none"]
    /\ UNCHANGED <<once_state, once_value, MLB_API_INSTANCE, constructed, client,
                   dropped>>
    /\ UNCHANGED nonInstanceVars
\* INSTANCE.get_or_init(|| Api::new()): a complete cell is read; one thread
\* is let into the closure, where the instance is constructed; the others
\* wait while it runs
GetOrInit(t) ==
    /\ rpc[t] = "get_or_init"
    /\ LET m == callee[t]
       IN  /\ once_state[m] # "running"
           /\ IF once_state[m] = "complete"
              THEN /\ client' = [client EXCEPT ![t] = once_value[m]]
                   /\ rpc' = [rpc EXCEPT ![t] = "request"]
                   /\ UNCHANGED <<once_state, constructed>>
              ELSE /\ once_state' = [once_state EXCEPT ![m] = "running"]
                   /\ constructed' = [constructed EXCEPT ![m] = @ + 1]
                   /\ rpc' = [rpc EXCEPT ![t] = "initializing"]
                   /\ UNCHANGED client
    /\ UNCHANGED <<callee, once_value, MLB_API_INSTANCE, dropped>>
    /\ UNCHANGED nonInstanceVars
\* the value of the closure is stored and get_or_init returns the reference
StoreInstance(t) ==
    /\ rpc[t] = "initializing"
    /\ LET m == callee[t]
       IN  /\ once_value' = [once_value EXCEPT ![m] = constructed[m]]
           /\ once_state' = [once_state EXCEPT ![m] = "complete"]
           /\ client' = [client EXCEPT ![t] = constructed[m]]
    /\ rpc' = [rpc EXCEPT ![t] = "request"]
    /\ UNCHANGED <<callee, MLB_API_INSTANCE, constructed, dropped>>
    /\ UNCHANGED nonInstanceVars
\* if MLB_API_INSTANCE.is_none()
IsNone(t) ==
    /\ rpc[t] = "is_none"
    /\ rpc' = [rpc EXCEPT ![t] = IF MLB_API_INSTANCE = 0 THEN "assign" ELSE "as_ref"]
    /\ UNCHANGED <<callee, once_state, once_value, MLB_API_INSTANCE, constructed,
                   client, dropped>>
    /\ UNCHANGED nonInstanceVars
\* MLB_API_INSTANCE = Some(MlbApi::new()): the value that was there is dropped
AssignInstance(t) ==
    /\ rpc[t] = "assign"
    /\ constructed' = [constructed EXCEPT !["mlb/mod.rs"] = @ + 1]
    /\ MLB_API_INSTANCE' = constructed["mlb/mod.rs"] + 1
    /\ dropped' = IF MLB_API_INSTANCE = 0 THEN dropped
                  ELSE dropped \cup {MLB_API_INSTANCE}
    /\ rpc' = [rpc EXCEPT ![t] = "as_ref"]
    /\ UNCHANGED <<callee, once_state, once_value, client>>
    /\ UNCHANGED nonInstanceVars
\* MLB_API_INSTANCE.as_ref().unwrap()
AsRef(t) ==
    /\ rpc[t] = "as_ref"
    /\ client' = [client EXCEPT ![t] = MLB_API_INSTANCE]
    /\ rpc' = [rpc EXCEPT ![t] = "request"]
    /\ UNCHANGED <<callee, once_state, once_value, MLB_API_INSTANCE, constructed,
                   dropped>>
    /\ UNCHANGED nonInstanceVars
\* the method called on the instance has been awaited: the request is over
RequestReturns(t) ==
    /\ rpc[t] = "request"
    /\ rpc' = [rpc EXCEPT ![t] = "idle"]
    /\ client' = [client EXCEPT ![t] = 0]
    /\ UNCHANGED <<callee, once_state, once_value, MLB_API_INSTANCE, constructed,
                   dropped>>
    /\ UNCHANGED nonInstanceVars

NextInstances ==
    \E t \in Threads :
        \/ \E m \in Modules : CallTopLevel(t, m)
        \/ GetOrInit(t)
        \/ StoreInstance(t)
        \/ IsNone(t)
        \/ AssignInstance(t)
        \/ AsRef(t)
        \/ RequestReturns(t)
SpecInstances == Init /\ [][NextInstances]_vars

\* the instance the static of a module holds
CurrentInstance(m) == IF m \in OnceModules THEN once_value[m] ELSE MLB_API_INSTANCE
\* the client of module m is constructed at most once, and every request on
\* it uses the instance the static holds, which was not dropped
SingleInstance(m) ==
    /\ constructed[m] <= 1
    /\ \A t \in Threads :
          (rpc[t] = "request" /\ callee[t] = m) =>
              /\ client[t] = CurrentInstance(m)
              /\ client[t] # 0
              /\ m \notin OnceModules => client[t] \notin dropped
\* C26: under every interleaving of concurrent requests the client instance
\* of a provider module is constructed at most once and every request uses
\* that one instance; two requests that find it uninitialised never both
\* install one, and no request sees it replaced.
C26_ClientConstructedOnce ==
    \A m \in Modules : SingleInstance(m)

====
